---- MODULE Spec2Model ----
(***************************************************************************)
(* A model of the reconciliation pipeline of the Kubernetes-to-Avi        *)
(* controller: the informer event handlers of internal/k8s/controller.go,  *)
(* the orchestrator of internal/k8s/ako_init.go (HandleConfigMap,          *)
(* InitController, FullSyncK8s, FullSync, DeleteModels, the SyncFrom*      *)
(* queue callbacks) and the helpers of internal/lib/lib.go they use.       *)
(***************************************************************************)
EXTENDS Integers, Sequences, FiniteSets, TLC

VARIABLES
    env,            \* process environment and informer set, fixed at start
    DisableSync,    \* AviController.DisableSync
    libDisableSync, \* lib.DisableSync
    nsFilter,       \* the accepted-namespace list of the global namespace filter
    workqueue,      \* c.workqueue: one FIFO of keys per ingestion worker
    ingestion,      \* per ingestion worker: the key it runs DequeueIngestion on
    graphQueue,     \* the GraphLayer queue read by the REST layer: one FIFO per worker
    restWorker,     \* per GraphLayer worker: the ModelName it is applying
    graphLister,    \* objects.SharedAviGraphLister: ModelName -> graph
    vsCache,        \* avicache VsCacheMeta: the parent VS keys
    routeStatus,    \* the Route keys whose status carries the DuplicateBackends error
    pc,             \* the main thread: its place in HandleConfigMap and InitController
    running,        \* the queues whose workers were started (Run), in start order
    stopped,        \* the queues whose workers were stopped (StopWorkers), in stop order
    worker,         \* the full-sync thread (utils.FullSyncThread) of InitController
    fs,             \* the activation of FullSyncK8s, on the main or the full-sync thread
    cm,             \* the ConfigMap informer: the object it holds, the callback it is in
    chans,          \* lib.StaticRouteSyncChan, lib.ConfigDeleteSyncChan, ctrlCh
    apiShutdown,    \* lib.ShutdownApi was called
    ssStatus,       \* the conditions written to the controller's StatefulSet
    nplAnnotations, \* the tracked Services carry the NodePortLocal annotation
    seGroupLabels,  \* the service engine group carries the cluster's labels
    outcome,        \* what the last informer callback did with its event
    delivered,      \* history: the admitted events, in informer delivery order
    processed,      \* history: the keys handed to the graph layer, each with its worker
    event,          \* the event an informer holds for its callback: kind, type and objects
    call            \* a call of a helper of lib.go: its arguments, its progress and its result

ctlVars   == <<DisableSync, libDisableSync>>
ingVars   == <<workqueue, ingestion>>
restVars  == <<graphQueue, restWorker>>
graphVars == <<graphLister, vsCache>>
histVars  == <<outcome, delivered, processed>>
extVars   == <<apiShutdown, ssStatus, nplAnnotations, seGroupLabels>>
bootVars  == <<pc, running, stopped, worker, fs, cm, chans, extVars>>
\* No event held by an informer, no call of a helper in progress.
NoEvent == [kind |-> "none"]
NoCall == [fn |-> "none"]

vars == <<env, event, call, ctlVars, nsFilter, ingVars, restVars, graphVars, routeStatus, histVars, bootVars>>

(***************************************************************************)
(* Bounds of the model.                                                    *)
(***************************************************************************)
MaxEvents == 2            \* admitted informer events in one behaviour
MaxIngestionWorkers == 2  \* ingestion worker counts explored: 1..MaxIngestionWorkers
MaxListed == 1            \* objects returned by the listings of one full sync
MaxFullSyncs == 2         \* FullSyncK8s runs in one behaviour
MaxConfigEvents == 1      \* changes of the ConfigMap in one behaviour
MaxToggles == 2           \* changes of the ConfigMap in a behaviour of SpecConfig

NoKey == ""

(***************************************************************************)
(* Names.  The cluster name is CLUSTER_NAME, the tenant the admin tenant.  *)
(***************************************************************************)
ClusterName == env.clusterName
Tenant == "admin"
NamePrefix == ClusterName \o "--"
KindIngress == "Ingress"
KindRoute == "Route"
KindL4LBService == "L4LBService"
KindService == "Service"
KindEndpoints == "Endpoints"
KindSecret == "Secret"
KindPod == "Pod"
KindNode == "Node"
KindIngressClass == "IngressClass"
KindGateway == "Gateway"
AviSecret == "avi-secret"
AKONamespace == "avi-system"

\* The 32-bit FNV-1a hash (utils.Hash) of the strings the model hashes, as the
\* pair <<high 16 bits, low 16 bits>>.
Hash(s) ==
    CASE s = "" -> <<33052, 40389>>
      [] s = "ns1" -> <<24172, 52085>>
      [] s = "ns2" -> <<23404, 50876>>
      [] s = "avi-system" -> <<584, 6841>>
      [] s = "admin" -> <<13512, 13844>>
      [] s = "admin/global" -> <<28580, 26538>>
      [] s = "admin/DummyVSForStaleData" -> <<18438, 5656>>
      [] s = "admin/c1--ns1-a" -> <<61138, 62721>>
      [] s = "admin/c1--ns2-a" -> <<18506, 10864>>
      [] s = "admin/c1--Shared-L7-0" -> <<26985, 485>>
      [] s = "admin/c1--Shared-L7-1" -> <<26729, 82>>
      [] s = "admin/c1--Shared-L7-2" -> <<26472, 65215>>
      [] s = "admin/c1--Shared-L7-3" -> <<26216, 64812>>
      [] s = "admin/c1--Shared-L7-4" -> <<25960, 64409>>
      [] s = "admin/c1--Shared-L7-5" -> <<25704, 64006>>
      [] s = "admin/c1--Shared-L7-6" -> <<25448, 63603>>
      [] s = "admin/c1--Shared-L7-7" -> <<25192, 63200>>
      [] s = "admin/c1--a.ns1.com" -> <<26931, 61377>>
      [] s = "admin/c1--a.ns2.com" -> <<4766, 2744>>
      [] s = "admin/c1--old" -> <<4871, 61840>>
      [] s = "a.ns1.com" -> <<56455, 60723>>
      [] s = "a.ns2.com" -> <<36031, 27118>>
      [] s = "p.x" -> <<24531, 34097>>
      [] s = "q.x" -> <<63892, 61706>>
      [] s = "admin/Shared-L7--ns1-a" -> <<29154, 62184>>
      [] s = "admin/Shared-L7--ns2-a" -> <<55403, 22713>>
      [] s = "admin/Shared-L7--Shared-L7-0" -> <<62922, 3988>>
      [] s = "admin/Shared-L7--Shared-L7-1" -> <<63178, 4391>>
      [] s = "admin/Shared-L7--Shared-L7-2" -> <<63434, 4794>>
      [] s = "admin/Shared-L7--Shared-L7-3" -> <<63690, 5197>>
      [] s = "admin/Shared-L7--a.ns1.com" -> <<52799, 27972>>
      [] s = "admin/Shared-L7--a.ns2.com" -> <<9360, 6605>>

\* utils.Bkt: the bucket of a locality key among n workers, Hash(key) mod n.
Bkt(key, n) == ((Hash(key)[1] * (65536 % n)) + Hash(key)[2]) % n

\* utils.ObjKey: "<namespace>/<name>", the bare name for a cluster-scoped object.
ObjKey(ns, name) == IF ns = "" THEN name ELSE ns \o "/" \o name

MakeKey(kind, ns, name) == kind \o "/" \o ObjKey(ns, name)

(***************************************************************************)
(* Environment accessors of lib.go.                                        *)
(***************************************************************************)
GetAdvancedL4 == env.advL4
GetLayer7Only == env.layer7Only
UseServicesAPI == env.servicesAPI
GetServiceType == env.serviceType
IsNodePortMode == env.serviceType = "NodePort"
GetTenant == Tenant

GetDisableStaticRoute ==
    \/ GetAdvancedL4
    \/ env.nsxtNcp
    \/ env.disableStaticRouteSync
    \/ IsNodePortMode
    \/ GetServiceType = "NodePortLocal"

\* The condition under which FullSyncK8s and SetupEventHandlers handle nodes.
StaticRouteSyncActive == ~(GetDisableStaticRoute /\ ~IsNodePortMode)

(***************************************************************************)
(* The namespace filter (utils).                                           *)
(***************************************************************************)
\* CheckIfNamespaceAccepted(namespace): membership in the accepted list;
\* every namespace is accepted when no sync label is configured.
CheckIfNamespaceAccepted(ns) == ~env.nsMigration \/ ns \in nsFilter

\* CheckIfNamespaceAccepted(namespace, labels, false): the labels decide.
CheckIfNamespaceLabelsAccepted(match) == ~env.nsMigration \/ match

IsServiceNSValid(ns) == GetAdvancedL4 \/ CheckIfNamespaceAccepted(ns)

(***************************************************************************)
(* The ingestion work queue.                                               *)
(***************************************************************************)
numWorkers == env.numWorkers
Workers == 0 .. (numWorkers - 1)

\* c.workqueue[bkt].AddRateLimited(key) for an event of an object of namespace ns.
AddRateLimited(bkt, key, ns) ==
    /\ Len(delivered) < MaxEvents
    /\ workqueue' = [workqueue EXCEPT ![bkt] = Append(@, key)]
    /\ delivered' = Append(delivered, [key |-> key, ns |-> ns])
    /\ outcome' = "enqueued"

\* An early return of a handler: nothing is enqueued.
Return(why) ==
    /\ outcome' = why
    /\ UNCHANGED <<workqueue, delivered>>

handlerFrame == <<env, event, call, ctlVars, nsFilter, ingestion, restVars, graphVars, routeStatus, processed, bootVars>>

\* A delete callback's object: the object itself, a tombstone
\* (cache.DeletedFinalStateUnknown) holding it, a tombstone holding something
\* else, or something that is neither.
DeleteObjs == {"obj", "tombstone", "tombstoneOther", "other"}
IsObj(wrap) == wrap \in {"obj", "tombstone"}

Namespaces == env.namespaces
Names == {"a"}
\* Two values of a compared field (a ResourceVersion, a Spec hash, ...): the old
\* object carries the first.
Versions == {"v1", "v2"}
OldVersion == "v1"
(***************************************************************************)
(* Informer event handlers (SetupEventHandlers and the Add*EventHandler    *)
(* constructors).  Every callback is one action; its inputs are the        *)
(* fields of the delivered objects that the callback reads.                *)
(***************************************************************************)
\* Endpoints -----------------------------------------------------------------
EpAddFunc(ns, name) ==
    /\ IF DisableSync THEN Return("disabled")
       ELSE AddRateLimited(Bkt(ns, numWorkers), MakeKey(KindEndpoints, ns, name), ns)
    /\ UNCHANGED handlerFrame

EpDeleteFunc(wrap, ns, name) ==
    /\ IF DisableSync THEN Return("disabled")
       ELSE IF ~IsObj(wrap) THEN Return("badtype")
       ELSE AddRateLimited(Bkt(ns, numWorkers), MakeKey(KindEndpoints, ns, name), ns)
    /\ UNCHANGED handlerFrame

EpUpdateFunc(ns, name, oldSubsets, newSubsets) ==
    /\ IF DisableSync THEN Return("disabled")
       ELSE IF newSubsets = oldSubsets THEN Return("unchanged")
       ELSE AddRateLimited(Bkt(ns, numWorkers), MakeKey(KindEndpoints, ns, name), ns)
    /\ UNCHANGED handlerFrame

\* Services ------------------------------------------------------------------
\* The key choice and namespace check shared by the three service callbacks.
SvcEnqueue(ns, name, isSvcLb) ==
    IF isSvcLb /\ ~GetLayer7Only
    THEN IF ~IsServiceNSValid(ns) THEN Return("filtered")
         ELSE AddRateLimited(Bkt(ns, numWorkers), MakeKey(KindL4LBService, ns, name), ns)
    ELSE IF GetAdvancedL4 \/ ~CheckIfNamespaceAccepted(ns) THEN Return("filtered")
         ELSE AddRateLimited(Bkt(ns, numWorkers), MakeKey(KindService, ns, name), ns)

SvcAddFunc(ns, name, isSvcLb) ==
    /\ IF DisableSync THEN Return("disabled")
       ELSE SvcEnqueue(ns, name, isSvcLb)
    /\ UNCHANGED handlerFrame

SvcDeleteFunc(wrap, ns, name, isSvcLb) ==
    /\ IF DisableSync THEN Return("disabled")
       ELSE IF ~IsObj(wrap) THEN Return("badtype")
       ELSE SvcEnqueue(ns, name, isSvcLb)
    /\ UNCHANGED handlerFrame

SvcUpdateFunc(ns, name, isSvcLb, oldRV, newRV, oldAnn, newAnn) ==
    /\ IF DisableSync THEN Return("disabled")
       ELSE IF oldRV # newRV \/ newAnn # oldAnn THEN SvcEnqueue(ns, name, isSvcLb)
       ELSE Return("unchanged")
    /\ UNCHANGED handlerFrame

\* Calico BlockAffinity and OpenShift HostSubnet -------------------------------
\* The callbacks assert the object's type unchecked: anything but the object
\* itself makes the callback panic.
NodeInfoEvent(wrap, found, node) ==
    /\ IF DisableSync THEN Return("disabled")
       ELSE IF wrap # "obj" THEN Return("panic")
       ELSE IF ~found THEN Return("notfound")
       ELSE AddRateLimited(Bkt(GetTenant, numWorkers), MakeKey(KindNode, "", node), GetTenant)
    /\ UNCHANGED handlerFrame

BlockAffinityAddFunc(found, node) == env.cni = "calico" /\ NodeInfoEvent("obj", found, node)
BlockAffinityDeleteFunc(wrap, found, node) == env.cni = "calico" /\ NodeInfoEvent(wrap, found, node)
HostSubnetAddFunc(found, node) == env.cni = "openshift" /\ NodeInfoEvent("obj", found, node)
HostSubnetDeleteFunc(wrap, found, node) == env.cni = "openshift" /\ NodeInfoEvent(wrap, found, node)

\* Secrets -------------------------------------------------------------------
validateAviSecret(ns, name) == ~(ns = AKONamespace /\ name = AviSecret)

SecretAddFunc(ns, name) ==
    /\ IF DisableSync THEN Return("disabled")
       ELSE AddRateLimited(Bkt(ns, numWorkers), MakeKey(KindSecret, ns, name), ns)
    /\ UNCHANGED handlerFrame

SecretDeleteFunc(wrap, ns, name) ==
    /\ IF DisableSync THEN Return("disabled")
       ELSE IF ~IsObj(wrap) THEN Return("badtype")
       ELSE IF ~validateAviSecret(ns, name) THEN Return("filtered")
       ELSE AddRateLimited(Bkt(ns, numWorkers), MakeKey(KindSecret, ns, name), ns)
    /\ UNCHANGED handlerFrame

SecretUpdateFunc(ns, name, oldRV, newRV, oldData, newData) ==
    /\ IF DisableSync THEN Return("disabled")
       ELSE IF ~(oldRV # newRV /\ newData # oldData) THEN Return("unchanged")
       ELSE IF ~validateAviSecret(ns, name) THEN Return("filtered")
       ELSE AddRateLimited(Bkt(ns, numWorkers), MakeKey(KindSecret, ns, name), ns)
    /\ UNCHANGED handlerFrame

\* Ingresses -----------------------------------------------------------------
IngressRegistered == ~GetAdvancedL4 /\ env.ingressInformer

isIngressUpdated(oldRV, newRV, oldSpec, newSpec, oldAnn, newAnn) ==
    IF oldRV = newRV THEN FALSE
    ELSE oldSpec # newSpec \/ oldAnn # newAnn

\* IngressEnqueue with the bucket of the node handlers (the tenant's).
IngressEnqueueTenantBkt(ns, name) ==
    IF ~CheckIfNamespaceAccepted(ns) THEN Return("filtered")
    ELSE AddRateLimited(Bkt(GetTenant, numWorkers), MakeKey(KindIngress, ns, name), ns)

IngressEnqueue(ns, name) ==
    IF ~CheckIfNamespaceAccepted(ns) THEN Return("filtered")
    ELSE AddRateLimited(Bkt(ns, numWorkers), MakeKey(KindIngress, ns, name), ns)

IngressAddFunc(ns, name) ==
    /\ IngressRegistered
    /\ IF DisableSync THEN Return("disabled")
       ELSE IngressEnqueue(ns, name)
    /\ UNCHANGED handlerFrame

\* IngressDeleteFunc without the DisableSync check at its entry.
IngressDeleteFuncUngated(wrap, ns, name) ==
    /\ IngressRegistered
    /\ IF ~IsObj(wrap) THEN Return("badtype")
       ELSE IngressEnqueue(ns, name)
    /\ UNCHANGED handlerFrame

IngressDeleteFunc(wrap, ns, name) ==
    /\ IngressRegistered
    /\ IF DisableSync THEN Return("disabled")
       ELSE IF ~IsObj(wrap) THEN Return("badtype")
       ELSE IngressEnqueue(ns, name)
    /\ UNCHANGED handlerFrame

IngressUpdateFunc(ns, name, oldRV, newRV, oldSpec, newSpec, oldAnn, newAnn) ==
    /\ IngressRegistered
    /\ IF DisableSync THEN Return("disabled")
       ELSE IF ~isIngressUpdated(oldRV, newRV, oldSpec, newSpec, oldAnn, newAnn)
            THEN Return("unchanged")
       ELSE IngressEnqueue(ns, name)
    /\ UNCHANGED handlerFrame

\* Nodes ---------------------------------------------------------------------
NodeRegistered == ~GetAdvancedL4 /\ StaticRouteSyncActive

\* diff: the compared fields that differ between the old and the new node.
NodeFields == {"addrCount", "internalIP", "podCIDR", "labels"}
isNodeUpdated(oldRV, newRV, diff) ==
    IF oldRV = newRV THEN FALSE
    ELSE IF "addrCount" \in diff THEN TRUE
    ELSE IF "internalIP" \in diff THEN TRUE
    ELSE IF "podCIDR" \in diff THEN TRUE
    ELSE "labels" \in diff

NodeEnqueue(node) ==
    AddRateLimited(Bkt(GetTenant, numWorkers), MakeKey(KindNode, "", node), GetTenant)

NodeAddFunc(node) ==
    /\ NodeRegistered
    /\ IF DisableSync THEN Return("disabled") ELSE NodeEnqueue(node)
    /\ UNCHANGED handlerFrame

NodeDeleteFunc(wrap, node) ==
    /\ NodeRegistered
    /\ IF DisableSync THEN Return("disabled")
       ELSE IF ~IsObj(wrap) THEN Return("badtype")
       ELSE NodeEnqueue(node)
    /\ UNCHANGED handlerFrame

NodeUpdateFunc(node, oldRV, newRV, diff) ==
    /\ NodeRegistered
    /\ IF DisableSync THEN Return("disabled")
       ELSE IF isNodeUpdated(oldRV, newRV, diff) THEN NodeEnqueue(node)
       ELSE Return("unchanged")
    /\ UNCHANGED handlerFrame

\* IngressClasses (cluster-scoped: the namespace of the key is empty) ---------
IngressClassRegistered == ~GetAdvancedL4 /\ env.ingressClassInformer

IngressClassEnqueue(name) ==
    AddRateLimited(Bkt("", numWorkers), MakeKey(KindIngressClass, "", name), "")

IngressClassAddFunc(name) ==
    /\ IngressClassRegistered
    /\ IF DisableSync THEN Return("disabled") ELSE IngressClassEnqueue(name)
    /\ UNCHANGED handlerFrame

IngressClassDeleteFunc(wrap, name) ==
    /\ IngressClassRegistered
    /\ IF DisableSync THEN Return("disabled")
       ELSE IF ~IsObj(wrap) THEN Return("badtype")
       ELSE IngressClassEnqueue(name)
    /\ UNCHANGED handlerFrame

IngressClassUpdateFunc(name, oldRV, newRV) ==
    /\ IngressClassRegistered
    /\ IF DisableSync THEN Return("disabled")
       ELSE IF oldRV # newRV THEN IngressClassEnqueue(name)
       ELSE Return("unchanged")
    /\ UNCHANGED handlerFrame

\* Pods (NodePortLocal only) ---------------------------------------------------
PodRegistered == ~GetAdvancedL4 /\ GetServiceType = "NodePortLocal"

PodAddFunc(ns, name) ==
    /\ PodRegistered
    /\ IF DisableSync THEN Return("disabled")
       ELSE AddRateLimited(Bkt(ns, numWorkers), MakeKey(KindPod, ns, name), ns)
    /\ UNCHANGED handlerFrame

PodDeleteFunc(wrap, ns, name) ==
    /\ PodRegistered
    /\ IF DisableSync THEN Return("disabled")
       ELSE IF ~IsObj(wrap) THEN Return("badtype")
       ELSE AddRateLimited(Bkt(ns, numWorkers), MakeKey(KindPod, ns, name), ns)
    /\ UNCHANGED handlerFrame

PodUpdateFunc(ns, name, oldPod, newPod) ==
    /\ PodRegistered
    /\ IF DisableSync THEN Return("disabled")
       ELSE IF newPod = oldPod THEN Return("unchanged")
       ELSE AddRateLimited(Bkt(ns, numWorkers), MakeKey(KindPod, ns, name), ns)
    /\ UNCHANGED handlerFrame

\* Routes --------------------------------------------------------------------
RouteRegistered == ~GetAdvancedL4 /\ env.routeInformer

isRouteUpdated(oldRV, newRV, oldSpec, newSpec) ==
    IF oldRV = newRV THEN FALSE
    ELSE oldSpec # newSpec

\* lib.HasValidBackends: no alternate backend repeats the name of the primary
\* backend or of an earlier alternate backend.
RECURSIVE NoRepeat(_, _)
NoRepeat(svcList, alts) ==
    IF alts = <<>> THEN TRUE
    ELSE IF Head(alts) \in svcList THEN FALSE
    ELSE NoRepeat(svcList \cup {Head(alts)}, Tail(alts))

\* HasValidBackends comparing the alternate backends among themselves only.
HasValidBackendsAltsOnly(to, alts) == NoRepeat({}, alts)

HasValidBackends(to, alts) == NoRepeat({to}, alts)

routeFrame == <<env, event, call, ctlVars, nsFilter, ingestion, restVars, graphVars, processed, bootVars>>

\* The tail shared by the Add and Update callbacks: the status error, then the key.
RouteEnqueue(ns, name, to, alts) ==
    /\ routeStatus' = IF ~HasValidBackends(to, alts)
                      THEN routeStatus \cup {MakeKey(KindRoute, ns, name)}
                      ELSE routeStatus
    /\ AddRateLimited(Bkt(ns, numWorkers), MakeKey(KindRoute, ns, name), ns)

RouteAddFunc(ns, name, to, alts) ==
    /\ RouteRegistered
    /\ IF DisableSync THEN Return("disabled") /\ UNCHANGED routeStatus
       ELSE IF ~CheckIfNamespaceAccepted(ns) THEN Return("filtered") /\ UNCHANGED routeStatus
       ELSE RouteEnqueue(ns, name, to, alts)
    /\ UNCHANGED routeFrame

\* RouteDeleteFunc without the namespace filter check.
RouteDeleteFuncUnfiltered(wrap, ns, name) ==
    /\ RouteRegistered
    /\ IF DisableSync THEN Return("disabled")
       ELSE IF ~IsObj(wrap) THEN Return("badtype")
       ELSE AddRateLimited(Bkt(ns, numWorkers), MakeKey(KindRoute, ns, name), ns)
    /\ UNCHANGED handlerFrame

RouteDeleteFunc(wrap, ns, name) ==
    /\ RouteRegistered
    /\ IF DisableSync THEN Return("disabled")
       ELSE IF ~IsObj(wrap) THEN Return("badtype")
       ELSE IF ~CheckIfNamespaceAccepted(ns) THEN Return("filtered")
       ELSE AddRateLimited(Bkt(ns, numWorkers), MakeKey(KindRoute, ns, name), ns)
    /\ UNCHANGED handlerFrame

RouteUpdateFunc(ns, name, oldRV, newRV, oldSpec, newSpec, to, alts) ==
    /\ RouteRegistered
    /\ IF DisableSync THEN Return("disabled") /\ UNCHANGED routeStatus
       ELSE IF ~isRouteUpdated(oldRV, newRV, oldSpec, newSpec)
            THEN Return("unchanged") /\ UNCHANGED routeStatus
       ELSE IF ~CheckIfNamespaceAccepted(ns) THEN Return("filtered") /\ UNCHANGED routeStatus
       ELSE RouteEnqueue(ns, name, to, alts)
    /\ UNCHANGED routeFrame

\* Namespaces ------------------------------------------------------------------
NamespaceRegistered == ~GetAdvancedL4 /\ env.nsMigration

\* The label values of a namespace; the configured selector is env=prod.
LabelValues == {"prod", "dev"}
LabelsMatch(labels) == labels = "prod"

isNamespaceUpdated(oldRV, newRV, oldLabels, newLabels) ==
    IF oldRV = newRV THEN FALSE
    ELSE oldLabels # newLabels

\* The keys of one Add*FromNSToIngestionQueue call, in lister order.
NsKeys(kind, ns, names) == [i \in 1 .. Len(names) |-> MakeKey(kind, ns, names[i])]

\* AddServicesFromNSToIngestionQueue: svcs is a sequence of <<name, isSvcLb>>.
NsServiceKeys(ns, svcs) ==
    IF GetAdvancedL4 THEN <<>>
    ELSE [i \in 1 .. Len(svcs) |->
            IF svcs[i][2] /\ ~GetLayer7Only
            THEN MakeKey(KindL4LBService, ns, svcs[i][1])
            ELSE MakeKey(KindService, ns, svcs[i][1])]

\* The four replays of a namespace transition: ingresses, else routes when there
\* is no ingress informer; services; gateways with the services API.
NsReplayKeys(ns, ings, routes, svcs, gws) ==
    (IF env.ingressInformer THEN NsKeys(KindIngress, ns, ings)
     ELSE IF env.routeInformer THEN NsKeys(KindRoute, ns, routes)
     ELSE <<>>)
    \o NsServiceKeys(ns, svcs)
    \o (IF UseServicesAPI THEN NsKeys(KindGateway, ns, gws) ELSE <<>>)

\* Every key of a replay goes to the bucket of the namespace.
AddAllRateLimited(bkt, keys, ns) ==
    /\ Len(delivered) + Len(keys) <= MaxEvents
    /\ workqueue' = [workqueue EXCEPT ![bkt] = @ \o keys]
    /\ delivered' = delivered \o [i \in 1 .. Len(keys) |-> [key |-> keys[i], ns |-> ns]]
    /\ outcome' = IF keys = <<>> THEN "nokeys" ELSE "enqueued"

nsFrame == <<env, event, call, ctlVars, ingestion, restVars, graphVars, routeStatus, processed, bootVars>>

\* NamespaceAddFunc never taking a namespace out of the accepted list.
NamespaceAddFuncAddOnly(ns, labels) ==
    /\ NamespaceRegistered
    /\ IF DisableSync THEN Return("disabled") /\ UNCHANGED nsFilter
       ELSE /\ Return("nsfilter")
            /\ nsFilter' = IF CheckIfNamespaceLabelsAccepted(LabelsMatch(labels))
                           THEN nsFilter \cup {ns}
                           ELSE nsFilter
    /\ UNCHANGED nsFrame

NamespaceAddFunc(ns, labels) ==
    /\ NamespaceRegistered
    /\ IF DisableSync THEN Return("disabled") /\ UNCHANGED nsFilter
       ELSE /\ Return("nsfilter")
            /\ nsFilter' = IF CheckIfNamespaceLabelsAccepted(LabelsMatch(labels))
                           THEN nsFilter \cup {ns}
                           ELSE nsFilter \ {ns}
    /\ UNCHANGED nsFrame

\* NamespaceUpdateFunc leaving the accepted list alone when the labels stop matching.
NamespaceUpdateFuncKeepFilter(ns, oldRV, newRV, oldLabels, newLabels, ings, routes, svcs, gws) ==
    /\ NamespaceRegistered
    /\ LET oldNSAccepted == CheckIfNamespaceLabelsAccepted(LabelsMatch(oldLabels))
           newNSAccepted == CheckIfNamespaceLabelsAccepted(LabelsMatch(newLabels))
           keys == NsReplayKeys(ns, ings, routes, svcs, gws)
       IN IF DisableSync THEN Return("disabled") /\ UNCHANGED nsFilter
          ELSE IF ~isNamespaceUpdated(oldRV, newRV, oldLabels, newLabels)
               THEN Return("unchanged") /\ UNCHANGED nsFilter
          ELSE IF ~oldNSAccepted /\ newNSAccepted
               THEN /\ nsFilter' = nsFilter \cup {ns}
                    /\ AddAllRateLimited(Bkt(ns, numWorkers), keys, ns)
          ELSE IF oldNSAccepted /\ ~newNSAccepted
               THEN /\ UNCHANGED nsFilter
                    /\ AddAllRateLimited(Bkt(ns, numWorkers), keys, ns)
          ELSE Return("unchanged") /\ UNCHANGED nsFilter
    /\ UNCHANGED nsFrame

NamespaceUpdateFunc(ns, oldRV, newRV, oldLabels, newLabels, ings, routes, svcs, gws) ==
    /\ NamespaceRegistered
    /\ LET oldNSAccepted == CheckIfNamespaceLabelsAccepted(LabelsMatch(oldLabels))
           newNSAccepted == CheckIfNamespaceLabelsAccepted(LabelsMatch(newLabels))
           keys == NsReplayKeys(ns, ings, routes, svcs, gws)
       IN IF DisableSync THEN Return("disabled") /\ UNCHANGED nsFilter
          ELSE IF ~isNamespaceUpdated(oldRV, newRV, oldLabels, newLabels)
               THEN Return("unchanged") /\ UNCHANGED nsFilter
          ELSE IF ~oldNSAccepted /\ newNSAccepted
               THEN /\ nsFilter' = nsFilter \cup {ns}
                    /\ AddAllRateLimited(Bkt(ns, numWorkers), keys, ns)
          ELSE IF oldNSAccepted /\ ~newNSAccepted
               THEN /\ nsFilter' = nsFilter \ {ns}
                    /\ AddAllRateLimited(Bkt(ns, numWorkers), keys, ns)
          ELSE Return("unchanged") /\ UNCHANGED nsFilter
    /\ UNCHANGED nsFrame

(***************************************************************************)
(* The graph layer (package nodes) and the REST layer (package rest), as   *)
(* the specification describes them: their code is not part of the         *)
(* sources modelled here.                                                  *)
(***************************************************************************)
HasPrefix(s, prefix) == Len(s) >= Len(prefix) /\ SubSeq(s, 1, Len(prefix)) = prefix

IsEvhEnabled == env.evh

\* The name length above which the Avi controller rejects an object name.
AVI_OBJ_NAME_MAX_LENGTH == 255

\* CheckObjectNameLength: TRUE, with a warning in the log, for an overlong name.
CheckObjectNameLength(objName) == Len(objName) > AVI_OBJ_NAME_MAX_LENGTH

\* A namespace and a service name of 126 characters each.
LongNamespace ==
    "nnnnnnnnnnnnnnnnnnnnnnnnnnnnnnnnnnnnnnnnnnnnnnnnnnnnnnnnnnnnnnnnnnnnnnnnnnnnnnnnnnnnnnnnnnnnnnnnnnnnnnnnnnnnnnnnnnnnnnnnnnnnnn"
LongService ==
    "ssssssssssssssssssssssssssssssssssssssssssssssssssssssssssssssssssssssssssssssssssssssssssssssssssssssssssssssssssssssssssssss"

\* hex.EncodeToString(sha1.Sum(s)) for the raw names the model encodes.
Sha1Hex(s) ==
    CASE s = "c1--ns1-a" -> "bafffb552eee1690bb4d928afd0116dbf15f65ea"
      [] s = "c1--a-c" -> "5e111725ab736a09a786c9bcab40ba5fb821deee"
      [] s = "c1--a-b-c" -> "d21c093a6980d5ad33f980c0738d93d884ca4043"
      [] s = "c1--a-b-b-c" -> "48c5adc9f753b4a5be5d251b9326669d8ed26eb0"
      [] s = NamePrefix \o LongNamespace \o "-" \o LongService
           -> "ed6a25fa5e9f3be9a844c78bd1e194ecd5ef9337"
      [] s = "c1--Shared-Passthrough-0" -> "7f11798b4e7847644b4e4a78c8f9c246f36c8e3c"
      [] s = "c1--Shared-Passthrough-1" -> "0d650beba21c2d4b653fb46cf47a81c5b6603071"
      [] s = "c1--Shared-Passthrough-2" -> "611a2fbf845129e1ccbbc0e4d4b1e45c389aafc1"
      [] s = "c1--Shared-Passthrough-3" -> "831f9e280d8e4c0dd37bd3acc5c860504ca65db0"
      [] s = "c1--Shared-Passthrough-4" -> "98742f1d05b229b3eb1fcddc3bdcbde7835b550c"
      [] s = "c1--Shared-Passthrough-5" -> "72e2eadde6c500098ae93e74c80e9d713a28d088"
      [] s = "c1--Shared-Passthrough-6" -> "17710cabfed8581f50dabc2e227e77fc25a4a8f1"
      [] s = "c1--Shared-Passthrough-7" -> "a60bc1c5065e23094ee44cc6145b19c6961caec0"

\* Encode returning the bare digest, without the cluster prefix.
EncodeDigestOnly(s) ==
    IF ~IsEvhEnabled \/ GetAdvancedL4 THEN s
    ELSE Sha1Hex(s)

Encode(s) ==
    IF ~IsEvhEnabled \/ GetAdvancedL4 THEN s
    ELSE NamePrefix \o Sha1Hex(s)

GetModelName(namespace, objectName) == namespace \o "/" \o objectName
GetL4VSName(svcName, namespace) == Encode(NamePrefix \o namespace \o "-" \o svcName)
GetVrf == "global"
GetNamePrefix == NamePrefix
GetNamespaceToSync == env.syncNamespace
ShardVSPrefix == "Shared-L7"
DummyVSForStaleData == "DummyVSForStaleData"

ShardSizes == {"LARGE", "MEDIUM", "SMALL", "DEDICATED"}
ShardSizeMap(size) ==
    CASE size = "LARGE" -> 8
      [] size = "MEDIUM" -> 4
      [] size = "SMALL" -> 1
      [] size = "DEDICATED" -> 0

GetshardSize ==
    IF GetAdvancedL4 THEN ShardSizeMap("LARGE")
    ELSE IF env.shardVsSize \in ShardSizes THEN ShardSizeMap(env.shardVsSize)
    ELSE 1

\* The worker count taken from the shard size as it is, 0 for DEDICATED.
numGraphWorkersUnreplaced == GetshardSize

\* InitController: the worker count of the GraphLayer (REST-facing) queue.
numGraphWorkers == IF GetshardSize = 0 THEN 8 ELSE GetshardSize
GraphWorkers == 0 .. (numGraphWorkers - 1)

VrfModelName == GetModelName(GetTenant, GetVrf)
L4ModelName(ns, name) == GetModelName(GetTenant, GetL4VSName(name, ns))
HostOf(ns, name) == name \o "." \o ns \o ".com"
L7ModelName(host) ==
    IF GetshardSize = 0
    THEN GetModelName(GetTenant, NamePrefix \o host)
    ELSE GetModelName(GetTenant,
            NamePrefix \o ShardVSPrefix \o "-" \o ToString(Bkt(host, GetshardSize)))

\* A parent VS key of the object cache and the ModelName it reverse-maps to.
VsKey(name) == [Namespace |-> GetTenant, Name |-> name]
ModelOfVsKey(k) == k.Namespace \o "/" \o k.Name
\* The cache key of a ModelName "<tenant>/<vs name>".
VsKeyOfModel(modelName) ==
    [Namespace |-> GetTenant,
     Name |-> SubSeq(modelName, Len(GetTenant) + 2, Len(modelName))]
staleVSKey == GetTenant \o "/" \o DummyVSForStaleData

\* The graphs of the lister: nil, or a graph with its IsVrf flag and RetryCounter.
NilGraph == [nil |-> TRUE, IsVrf |-> FALSE, RetryCounter |-> 0]
NewAviObjectGraph(isVrf) == [nil |-> FALSE, IsVrf |-> isVrf, RetryCounter |-> 0]

ListerSave(lister, modelName, graph) ==
    [m \in (DOMAIN lister) \cup {modelName} |-> IF m = modelName THEN graph ELSE lister[m]]

\* lib.ExtractTypeNameNamespace over the keys the model builds.
NodeNames == {"n1"}
KeyKinds == {KindIngress, KindRoute, KindL4LBService, KindService, KindEndpoints,
             KindSecret, KindPod, KindNode, KindIngressClass, KindGateway,
             "GatewayClass", "HostRule", "HTTPRule", "AviInfraSetting"}
KeyNamespaces == Namespaces \cup {"", AKONamespace}
KeyNames == Names \cup NodeNames \cup {AviSecret}
ExtractTypeNameNamespace(key) ==
    CHOOSE t \in KeyKinds \X KeyNamespaces \X KeyNames : MakeKey(t[1], t[2], t[3]) = key
KeyKind(key) == ExtractTypeNameNamespace(key)[1]
KeyNamespace(key) == ExtractTypeNameNamespace(key)[2]
KeyName(key) == ExtractTypeNameNamespace(key)[3]

\* The namespace a key is ordered by: the tenant for Node keys.
KeyLocality(key) == IF KeyKind(key) = KindNode THEN GetTenant ELSE KeyNamespace(key)

\* The ModelNames a key affects.  The Ingress or Route <ns>/<name> serves the
\* host <name>.<ns>.com and uses the Service, Endpoints, Pods, Secret and CRDs
\* of its own namespace and name.
ModelsOf(key) ==
    LET kind == KeyKind(key)
        ns == KeyNamespace(key)
        name == KeyName(key)
    IN IF kind = KindNode THEN {VrfModelName}
       ELSE IF ns \notin Namespaces \/ name \notin Names THEN {}
       ELSE IF kind \in {KindL4LBService, KindGateway} THEN {L4ModelName(ns, name)}
       ELSE IF kind \in {KindIngress, KindRoute, KindService, KindEndpoints, KindSecret,
                         KindPod, "HostRule", "HTTPRule"}
            THEN {L7ModelName(HostOf(ns, name))}
       ELSE {}

\* The graphs a rebuild of the model can give: an L4 model is nil once its
\* Service is gone.
NewGraphs(modelName, key) ==
    IF modelName = VrfModelName THEN {NewAviObjectGraph(TRUE)}
    ELSE IF KeyKind(key) \in {KindL4LBService, KindGateway}
         THEN {NewAviObjectGraph(FALSE), NilGraph}
    ELSE {NewAviObjectGraph(FALSE)}

\* nodes.PublishKeyToRestLayer: the ModelName goes to its bucket of the queue.
Publish(queue, modelName) ==
    [queue EXCEPT ![Bkt(modelName, numGraphWorkers)] = Append(@, modelName)]

RECURSIVE PublishAll(_, _)
PublishAll(queue, modelNames) ==
    IF modelNames = <<>> THEN queue
    ELSE PublishAll(Publish(queue, Head(modelNames)), Tail(modelNames))

\* nodes.DequeueIngestion(key, fullsync): rebuild the affected graph, save it
\* when its checksum changed and, outside a full sync, forward the ModelName.
DequeueIngestion(key, fullsync) ==
    IF ModelsOf(key) = {}
    THEN UNCHANGED <<graphLister, graphQueue>>
    ELSE \E modelName \in ModelsOf(key), changed \in BOOLEAN :
         \E graph \in NewGraphs(modelName, key) :
            IF changed \/ modelName \notin DOMAIN graphLister
                       \/ graphLister[modelName] # graph
            THEN /\ graphLister' = ListerSave(graphLister, modelName, graph)
                 /\ graphQueue' = IF fullsync THEN graphQueue
                                  ELSE Publish(graphQueue, modelName)
            ELSE UNCHANGED <<graphLister, graphQueue>>

(***************************************************************************)
(* Queue workers.                                                          *)
(***************************************************************************)
QueueRuns(name) ==
    /\ \E i \in 1 .. Len(running) : running[i] = name
    /\ \A i \in 1 .. Len(stopped) : stopped[i] # name

\* An ingestion worker takes the next key of its bucket and enters
\* SyncFromIngestionLayer.
SyncFromIngestionLayerBegin(w) ==
    /\ QueueRuns("ingestion")
    /\ ingestion[w] = NoKey
    /\ workqueue[w] # <<>>
    /\ ingestion' = [ingestion EXCEPT ![w] = Head(workqueue[w])]
    /\ workqueue' = [workqueue EXCEPT ![w] = Tail(@)]
    /\ processed' = Append(processed, [key |-> Head(workqueue[w]), w |-> w])
    /\ UNCHANGED <<env, event, call, ctlVars, nsFilter, restVars, graphVars, routeStatus,
                   outcome, delivered, bootVars>>

\* SyncFromIngestionLayer returns: nodes.DequeueIngestion(keyStr, false) is done.
SyncFromIngestionLayerEnd(w) ==
    /\ ingestion[w] # NoKey
    /\ DequeueIngestion(ingestion[w], FALSE)
    /\ ingestion' = [ingestion EXCEPT ![w] = NoKey]
    /\ UNCHANGED <<env, event, call, ctlVars, nsFilter, workqueue, restWorker, vsCache, routeStatus,
                   histVars, bootVars>>

\* A GraphLayer worker takes the next ModelName of its bucket and enters
\* SyncFromNodesLayer.
SyncFromNodesLayerBegin(b) ==
    /\ QueueRuns("graph")
    /\ restWorker[b] = NoKey
    /\ graphQueue[b] # <<>>
    /\ restWorker' = [restWorker EXCEPT ![b] = Head(graphQueue[b])]
    /\ graphQueue' = [graphQueue EXCEPT ![b] = Tail(@)]
    /\ UNCHANGED <<env, event, call, ctlVars, nsFilter, ingVars, graphVars, routeStatus, histVars, bootVars>>

\* SyncFromNodesLayer returns: restlayer.DequeueNodes(keyStr) applied the model,
\* or failed and left the cache as it was.  A VRF apply signals the static-route
\* waiter; a delete that empties the cache while sync is disabled signals the
\* DeleteModels waiter.
DequeueNodes(modelName, ok) ==
    LET found == modelName \in DOMAIN graphLister
        graph == IF found THEN graphLister[modelName] ELSE NilGraph
        isDelete == graph.nil
        key == VsKeyOfModel(modelName)
        cache == IF ~ok \/ graph.IsVrf THEN vsCache
                 ELSE IF isDelete THEN vsCache \ {key}
                 ELSE vsCache \cup {key}
    IN /\ vsCache' = cache
       /\ chans' = [chans EXCEPT
            !.StaticRouteSyncChan =
                IF ok /\ modelName = VrfModelName /\ @ = "open" THEN "signalled" ELSE @,
            !.ConfigDeleteSyncChan =
                IF ok /\ libDisableSync /\ cache = {} /\ @ = "open" THEN "signalled" ELSE @]

SyncFromNodesLayerEnd(b, ok) ==
    /\ restWorker[b] # NoKey
    /\ DequeueNodes(restWorker[b], ok)
    /\ restWorker' = [restWorker EXCEPT ![b] = NoKey]
    /\ UNCHANGED <<env, event, call, ctlVars, nsFilter, ingVars, graphQueue, graphLister, routeStatus,
                   histVars, pc, running, stopped, worker, fs, cm, extVars>>

(***************************************************************************)
(* Initial states.                                                         *)
(***************************************************************************)
QueueNames == <<"graph", "ingestion", "fastretry", "slowretry", "status">>

FsIdle == [thread |-> "none", pc |-> "idle", todo |-> <<>>, key |-> NoKey,
           wait |-> "none", published |-> <<>>, cacheKeys |-> {}, listerModels |-> {},
           result |-> "none", runs |-> 0]

\* A Kubernetes cluster with Calico, ClusterIP services and Ingresses.
EnvKubernetes ==
    [advL4 |-> FALSE, layer7Only |-> FALSE, servicesAPI |-> FALSE,
     serviceType |-> "ClusterIP", nsxtNcp |-> FALSE, disableStaticRouteSync |-> FALSE,
     cni |-> "calico", nsMigration |-> FALSE, ingressInformer |-> TRUE,
     routeInformer |-> FALSE, ingressClassInformer |-> TRUE, numWorkers |-> 1,
     namespaces |-> {"ns1", "ns2"}, shardVsSize |-> "MEDIUM", syncNamespace |-> "",
     fullSyncInterval |-> "300", clusterNameValid |-> TRUE,
     evh |-> FALSE, passthroughShardSize |-> "SMALL", clusterName |-> "c1"]

\* An OpenShift cluster with NodePortLocal services, Routes, the services API
\* and a namespace label selector.
EnvOpenShift ==
    [EnvKubernetes EXCEPT !.serviceType = "NodePortLocal", !.cni = "openshift",
                          !.nsMigration = TRUE, !.ingressInformer = FALSE,
                          !.routeInformer = TRUE, !.ingressClassInformer = FALSE,
                          !.servicesAPI = TRUE, !.namespaces = {"ns1"}]

\* The controller after boot, its queues idle: sync enabled, or disabled by a
\* ConfigMap update that found no model to delete.
RunningState(e, disabled) ==
    /\ env = e
    /\ DisableSync = disabled
    /\ libDisableSync = disabled
    /\ nsFilter = {}
    /\ workqueue = [w \in 0 .. (e.numWorkers - 1) |-> <<>>]
    /\ ingestion = [w \in 0 .. (e.numWorkers - 1) |-> NoKey]
    /\ graphQueue = [b \in GraphWorkers |-> <<>>]
    /\ restWorker = [b \in GraphWorkers |-> NoKey]
    /\ graphLister = <<>>
    /\ vsCache = {}
    /\ routeStatus = {}
    /\ pc = "loop"
    /\ running = QueueNames
    /\ stopped = <<>>
    /\ worker = "idle"
    /\ fs = FsIdle
    /\ cm = [deleteConfig |-> IF disabled THEN "true" ELSE "false", pc |-> "idle",
             added |-> TRUE, events |-> 0, limit |-> MaxConfigEvents, valid |-> TRUE]
    /\ chans = [StaticRouteSyncChan |-> "nil", ConfigDeleteSyncChan |-> "nil"]
    /\ apiShutdown = FALSE
    /\ ssStatus = IF disabled THEN <<"ObjectDeletionStart", "ObjectDeletionDone">> ELSE <<>>
    /\ nplAnnotations = (e.serviceType = "NodePortLocal")
    /\ seGroupLabels = (e.serviceType = "ClusterIP")
    /\ outcome = "none"
    /\ delivered = <<>>
    /\ processed = <<>>

InitRunning(e, disabled) ==
    /\ RunningState(e, disabled)
    /\ event = NoEvent
    /\ call = NoCall

(***************************************************************************)
(* The informers deliver an event: any callback, with any object.          *)
(***************************************************************************)
SecretNamespaces == Namespaces \cup {AKONamespace}
SecretNames == Names \cup {AviSecret}
BackendLists == {<<>>, <<"s1">>, <<"s2">>, <<"s2", "s2">>}
NameLists == {<<>>, <<"a">>}
ServiceLists == {<<>>, <<<<"a", TRUE>>>>, <<<<"a", FALSE>>>>}

EndpointsEvent ==
    \E ns \in Namespaces, name \in Names :
        \/ EpAddFunc(ns, name)
        \/ \E wrap \in DeleteObjs : EpDeleteFunc(wrap, ns, name)
        \/ \E new \in Versions : EpUpdateFunc(ns, name, OldVersion, new)

ServiceEvent ==
    \E ns \in Namespaces, name \in Names, isSvcLb \in BOOLEAN :
        \/ SvcAddFunc(ns, name, isSvcLb)
        \/ \E wrap \in DeleteObjs : SvcDeleteFunc(wrap, ns, name, isSvcLb)
        \/ \E newRV \in Versions, newAnn \in Versions :
              SvcUpdateFunc(ns, name, isSvcLb, OldVersion, newRV, OldVersion, newAnn)

NodeInfoEvents ==
    \E found \in BOOLEAN, node \in NodeNames :
        \/ BlockAffinityAddFunc(found, node)
        \/ HostSubnetAddFunc(found, node)
        \/ \E wrap \in DeleteObjs :
              \/ BlockAffinityDeleteFunc(wrap, found, node)
              \/ HostSubnetDeleteFunc(wrap, found, node)

SecretEvent ==
    \E ns \in SecretNamespaces, name \in SecretNames :
        \/ SecretAddFunc(ns, name)
        \/ \E wrap \in DeleteObjs : SecretDeleteFunc(wrap, ns, name)
        \/ \E newRV \in Versions, newData \in Versions :
              SecretUpdateFunc(ns, name, OldVersion, newRV, OldVersion, newData)

IngressEvent ==
    \E ns \in Namespaces, name \in Names :
        \/ IngressAddFunc(ns, name)
        \/ \E wrap \in DeleteObjs : IngressDeleteFunc(wrap, ns, name)
        \/ \E newRV \in Versions, newSpec \in Versions, newAnn \in Versions :
              IngressUpdateFunc(ns, name, OldVersion, newRV, OldVersion, newSpec, OldVersion, newAnn)

NodeEvent ==
    \E node \in NodeNames :
        \/ NodeAddFunc(node)
        \/ \E wrap \in DeleteObjs : NodeDeleteFunc(wrap, node)
        \/ \E newRV \in Versions, diff \in SUBSET NodeFields :
              NodeUpdateFunc(node, OldVersion, newRV, diff)

IngressClassEvent ==
    \E name \in Names :
        \/ IngressClassAddFunc(name)
        \/ \E wrap \in DeleteObjs : IngressClassDeleteFunc(wrap, name)
        \/ \E newRV \in Versions : IngressClassUpdateFunc(name, OldVersion, newRV)

PodEvent ==
    \E ns \in Namespaces, name \in Names :
        \/ PodAddFunc(ns, name)
        \/ \E wrap \in DeleteObjs : PodDeleteFunc(wrap, ns, name)
        \/ \E new \in Versions : PodUpdateFunc(ns, name, OldVersion, new)

RouteEvent ==
    \E ns \in Namespaces, name \in Names :
        \/ \E alts \in BackendLists : RouteAddFunc(ns, name, "s1", alts)
        \/ \E wrap \in DeleteObjs : RouteDeleteFunc(wrap, ns, name)
        \/ \E newRV \in Versions, newSpec \in Versions, alts \in BackendLists :
              RouteUpdateFunc(ns, name, OldVersion, newRV, OldVersion, newSpec, "s1", alts)

NamespaceEvent ==
    \E ns \in Namespaces :
        \/ \E labels \in LabelValues : NamespaceAddFunc(ns, labels)
        \/ \E newRV \in Versions, oldLabels \in LabelValues,
              newLabels \in LabelValues, ings \in NameLists, routes \in NameLists,
              svcs \in ServiceLists, gws \in NameLists :
              NamespaceUpdateFunc(ns, OldVersion, newRV, oldLabels, newLabels, ings, routes, svcs, gws)

InformerEvent ==
    \/ EndpointsEvent
    \/ ServiceEvent
    \/ NodeInfoEvents
    \/ SecretEvent
    \/ IngressEvent
    \/ NodeEvent
    \/ IngressClassEvent
    \/ PodEvent
    \/ RouteEvent
    \/ NamespaceEvent

IngestionWorker ==
    \E w \in Workers :
        \/ SyncFromIngestionLayerBegin(w)
        \/ SyncFromIngestionLayerEnd(w)

(***************************************************************************)
(* SpecIngest: the informers and the ingestion workers of a running        *)
(* controller, for every ingestion worker count up to the bound.           *)
(***************************************************************************)
InitIngest ==
    \E e \in {EnvKubernetes, EnvOpenShift}, n \in 1 .. MaxIngestionWorkers,
       disabled \in BOOLEAN :
        InitRunning([e EXCEPT !.numWorkers = n], disabled)

NextIngest == InformerEvent \/ IngestionWorker

SpecIngest == InitIngest /\ [][NextIngest]_vars

(***************************************************************************)
(* Properties of the ingestion layer.                                      *)
(***************************************************************************)
\* The keys of a sequence of history records.
Keys(records) == [i \in 1 .. Len(records) |-> records[i].key]

\* The admitted events whose namespace hashes to bucket w, in delivery order.
DeliveredTo(w) ==
    LET OfBucket(e) == Bkt(e.ns, numWorkers) = w
    IN Keys(SelectSeq(delivered, OfBucket))

\* The keys worker w has handed to the graph layer, in hand-over order.
ProcessedBy(w) ==
    LET ByWorker(e) == e.w = w
    IN Keys(SelectSeq(processed, ByWorker))

\* C1: an informer event delivered while DisableSync is true adds no key to any
\* bucket of the ingestion queue: in a step taken with DisableSync set no bucket
\* grows and no event is admitted.
C1_DisabledEventAddsNoKey ==
    [][DisableSync =>
          /\ \A w \in Workers : Len(workqueue'[w]) <= Len(workqueue[w])
          /\ delivered' = delivered]_vars

\* C1 witness: a callback was delivered while DisableSync was true and it
\* returned at its DisableSync check.
C1_Witness == DisableSync /\ outcome = "disabled"

\* C4: the admitted events of a namespace all go to the bucket
\* hash(namespace) mod N, and the worker of that bucket hands their keys to the
\* graph layer in delivery order: for every bucket, the keys handed over so far
\* followed by the keys still queued are the events delivered to that bucket,
\* in delivery order.
C4_NamespaceOrderKept ==
    \A w \in Workers : ProcessedBy(w) \o workqueue[w] = DeliveredTo(w)

\* C4 witness: two events of one namespace were admitted with different keys
\* while another bucket exists, and both keys were handed to the graph layer.
C4_Witness ==
    /\ numWorkers > 1
    /\ Len(delivered) = 2
    /\ delivered[1].ns = delivered[2].ns
    /\ delivered[1].key # delivered[2].key
    /\ Len(processed) = 2
    /\ processed[1].key = delivered[1].key

(***************************************************************************)
(* FullSyncK8s.  fs is its activation: the thread running it, its place,   *)
(* the listed objects still to process, the key it runs DequeueIngestion   *)
(* on, how the static-route wait ended, what it published, and the parent  *)
(* VS keys of the cache and the models of the lister as it returned.       *)
(***************************************************************************)
\* The ModelName FullSyncK8s holds in vrfModelName: empty when it skips the nodes.
vrfModelName == IF StaticRouteSyncActive THEN VrfModelName ELSE ""

Listed(kind, ns, name, lb) == [kind |-> kind, ns |-> ns, name |-> name, lb |-> lb]

\* The order in which FullSyncK8s walks the kinds it lists.
StageOrder ==
    <<KindNode, KindService, KindPod, "HostRule", "HTTPRule", "AviInfraSetting",
      KindIngress, KindRoute, KindGateway, "GatewayClass">>
StageOf(kind) == CHOOSE i \in 1 .. Len(StageOrder) : StageOrder[i] = kind

\* The kinds FullSyncK8s lists in this environment.
StageListed(kind) ==
    CASE kind = KindService -> TRUE
      [] kind = KindPod -> GetServiceType = "NodePortLocal"
      [] kind \in {"HostRule", "HTTPRule", "AviInfraSetting"} -> ~GetAdvancedL4
      [] kind = KindIngress -> ~GetAdvancedL4 /\ env.ingressInformer
      [] kind = KindRoute -> ~GetAdvancedL4 /\ env.routeInformer
      [] kind \in {KindGateway, "GatewayClass"} -> GetAdvancedL4 \/ UseServicesAPI

\* The listings whose error makes FullSyncK8s return it; the others are logged.
FatalStages == {KindService, KindPod, KindGateway, "GatewayClass"}

\* The objects the informer stores can hold.
StoreObjects ==
    {o \in {Listed(kind, ns, name, lb) :
                kind \in {KindService, KindPod, "HostRule", "HTTPRule", KindIngress,
                          KindRoute, KindGateway},
                ns \in Namespaces, name \in Names, lb \in BOOLEAN} :
        /\ StageListed(o.kind)
        /\ o.lb => o.kind = KindService}
    \cup {o \in {Listed(kind, "", name, FALSE) :
                    kind \in {"AviInfraSetting", "GatewayClass"}, name \in Names} :
                StageListed(o.kind)}

\* The objects of a listing in the order FullSyncK8s processes them.
RECURSIVE InOrder(_)
InOrder(objs) ==
    IF objs = {} THEN <<>>
    ELSE LET first == CHOOSE o \in objs : \A p \in objs : StageOf(o.kind) <= StageOf(p.kind)
         IN <<first>> \o InOrder(objs \ {first})

\* The key FullSyncK8s builds for a listed object, NoKey when it skips the object.
FullSyncKey(o) ==
    CASE o.kind = KindNode -> MakeKey(KindNode, "", o.name)
      [] o.kind = KindService ->
            IF o.lb /\ ~GetLayer7Only
            THEN IF ~IsServiceNSValid(o.ns) THEN NoKey
                 ELSE MakeKey(KindL4LBService, o.ns, o.name)
            ELSE IF GetAdvancedL4 \/ ~CheckIfNamespaceAccepted(o.ns) THEN NoKey
                 ELSE MakeKey(KindService, o.ns, o.name)
      [] o.kind \in {KindIngress, KindRoute} ->
            IF CheckIfNamespaceAccepted(o.ns) THEN MakeKey(o.kind, o.ns, o.name) ELSE NoKey
      [] o.kind = KindGateway ->
            IF GetAdvancedL4 \/ CheckIfNamespaceAccepted(o.ns)
            THEN MakeKey(KindGateway, o.ns, o.name) ELSE NoKey
      [] OTHER -> MakeKey(o.kind, o.ns, o.name)

FsActive == fs.pc \notin {"idle", "done"}

\* The entry of FullSyncK8s on the given thread: the DisableSync check, then
\* the node listing when static routes are synced.
FullSyncK8sEntry(thread) ==
    /\ ~FsActive
    /\ fs.runs < MaxFullSyncs
    /\ LET start == [FsIdle EXCEPT !.thread = thread, !.runs = fs.runs + 1]
       IN IF DisableSync
          THEN /\ fs' = [start EXCEPT !.pc = "done", !.result = "skipped",
                                       !.cacheKeys = vsCache,
                                       !.listerModels = DOMAIN graphLister]
               /\ UNCHANGED chans
          ELSE IF ~StaticRouteSyncActive
          THEN /\ fs' = [start EXCEPT !.pc = "list"]
               /\ UNCHANGED chans
          ELSE \E nodes \in SUBSET NodeNames :
               /\ fs' = [start EXCEPT !.pc = "nodes",
                            !.todo = InOrder({Listed(KindNode, "", n, FALSE) : n \in nodes})]
               /\ chans' = [chans EXCEPT !.StaticRouteSyncChan = "open"]

fsFrame == <<env, event, call, ctlVars, nsFilter, ingVars, restWorker, vsCache, routeStatus, histVars,
             pc, running, stopped, cm, extVars>>

\* The next listed object: its key is built, or the object is skipped.
FsDequeueBegin ==
    /\ fs.pc \in {"nodes", "objects"}
    /\ fs.key = NoKey
    /\ fs.todo # <<>>
    /\ fs' = [fs EXCEPT !.key = FullSyncKey(Head(fs.todo)), !.todo = Tail(fs.todo)]
    /\ UNCHANGED <<fsFrame, graphLister, graphQueue, worker, chans>>

\* nodes.DequeueIngestion(key, true) returns.
FsDequeueEnd ==
    /\ fs.key # NoKey
    /\ DequeueIngestion(fs.key, TRUE)
    /\ fs' = [fs EXCEPT !.key = NoKey]
    /\ UNCHANGED <<fsFrame, worker, chans>>

\* FsPublishVrf without the select: the listings start right after the publish.
FsPublishVrfNoWait ==
    /\ fs.pc = "nodes" /\ fs.key = NoKey /\ fs.todo = <<>>
    /\ graphQueue' = Publish(graphQueue, vrfModelName)
    /\ fs' = [fs EXCEPT !.pc = "list", !.published = Append(@, vrfModelName)]
    /\ UNCHANGED <<fsFrame, graphLister, worker, chans>>

\* After the nodes the VRF model is published and the wait starts.
FsPublishVrf ==
    /\ fs.pc = "nodes" /\ fs.key = NoKey /\ fs.todo = <<>>
    /\ graphQueue' = Publish(graphQueue, vrfModelName)
    /\ fs' = [fs EXCEPT !.pc = "wait", !.published = Append(@, vrfModelName)]
    /\ UNCHANGED <<fsFrame, graphLister, worker, chans>>

\* The select on lib.StaticRouteSyncChan and the 20 s timer.
FsStaticRouteSignal ==
    /\ fs.pc = "wait"
    /\ chans.StaticRouteSyncChan = "signalled"
    /\ fs' = [fs EXCEPT !.pc = "list", !.wait = "signal"]
    /\ UNCHANGED <<fsFrame, graphLister, graphQueue, worker, chans>>

\* FsStaticRouteTimeout without the timer goroutine: the select has the one case.
FsStaticRouteNoTimer ==
    /\ fs.pc = "wait"
    /\ chans.StaticRouteSyncChan = "signalled"
    /\ fs' = [fs EXCEPT !.pc = "list", !.wait = "signal"]
    /\ UNCHANGED <<fsFrame, graphLister, graphQueue, worker, chans>>

FsStaticRouteTimeout ==
    /\ fs.pc = "wait"
    /\ fs' = [fs EXCEPT !.pc = "list", !.wait = "timeout"]
    /\ UNCHANGED <<fsFrame, graphLister, graphQueue, worker, chans>>

\* The listings of the informer stores: at most MaxListed objects, and possibly
\* an error at one of the listings whose error ends the full sync.
FsList ==
    /\ fs.pc = "list"
    /\ \E objs \in SUBSET StoreObjects, errAt \in {"none"} \cup FatalStages :
          /\ Cardinality(objs) <= MaxListed
          /\ errAt # "none" => StageListed(errAt)
          /\ LET before == IF errAt = "none" THEN objs
                           ELSE {o \in objs : StageOf(o.kind) < StageOf(errAt)}
             IN fs' = [fs EXCEPT !.pc = "objects", !.todo = InOrder(before),
                                 !.result = IF errAt = "none" THEN "none" ELSE "listerror"]
    /\ UNCHANGED <<fsFrame, graphLister, graphQueue, worker, chans>>

\* The thread's state once its FullSyncK8s has returned.
WorkerAfterSync ==
    IF fs.thread # "worker" THEN worker
    ELSE IF worker = "stopping" THEN "shutdown" ELSE "idle"

\* A listing failed: FullSyncK8s returns the error.
FsReturnError ==
    /\ fs.pc = "objects" /\ fs.key = NoKey /\ fs.todo = <<>>
    /\ fs.result = "listerror"
    /\ fs' = [fs EXCEPT !.pc = "done", !.result = "error", !.cacheKeys = vsCache,
                        !.listerModels = DOMAIN graphLister]
    /\ worker' = WorkerAfterSync
    /\ UNCHANGED <<fsFrame, graphLister, graphQueue, chans>>

\* The orders in which a walk over a Go map or a slice built from one can visit
\* the elements of S.
Orders(S) ==
    {s \in [1 .. Cardinality(S) -> S] :
        \A i, j \in 1 .. Cardinality(S) : i # j => s[i] # s[j]}

Range(s) == {s[i] : i \in 1 .. Len(s)}

\* VsKeyPublications publishing a key only when the lister has its model.
VsKeyPublicationsNoOrphans(k) ==
    IF ModelOfVsKey(k) \in DOMAIN graphLister THEN <<ModelOfVsKey(k)>> ELSE <<>>

\* What the last loop of FullSyncK8s publishes for one parent VS key of the
\* cache: with SYNC_NAMESPACE set, once per matching prefix.
VsKeyPublications(k) ==
    IF GetNamespaceToSync # ""
    THEN (IF ShardVSPrefix # "" /\ HasPrefix(k.Name, ShardVSPrefix)
          THEN <<ModelOfVsKey(k)>> ELSE <<>>)
         \o (IF HasPrefix(k.Name, GetNamePrefix \o GetNamespaceToSync)
             THEN <<ModelOfVsKey(k)>> ELSE <<>>)
    ELSE <<ModelOfVsKey(k)>>

RECURSIVE CachePublications(_)
CachePublications(vsKeys) ==
    IF vsKeys = <<>> THEN <<>>
    ELSE VsKeyPublications(Head(vsKeys)) \o CachePublications(Tail(vsKeys))

\* The end of FullSyncK8s: the parent VS keys of the cache are published, then
\* the models of the lister not published for a cache key; the VRF model, held
\* in vrfModelName, is left out.
FsPublish ==
    /\ fs.pc = "objects" /\ fs.key = NoKey /\ fs.todo = <<>>
    /\ fs.result = "none"
    /\ \E vsKeys \in Orders(vsCache) :
          LET fromCache == CachePublications(vsKeys)
              allModels == ((DOMAIN graphLister) \ {vrfModelName}) \ Range(fromCache)
          IN \E rest \in Orders(allModels) :
                /\ graphQueue' = PublishAll(graphQueue, fromCache \o rest)
                /\ fs' = [fs EXCEPT !.pc = "done", !.result = "ok",
                                    !.published = @ \o fromCache \o rest,
                                    !.cacheKeys = vsCache,
                                    !.listerModels = DOMAIN graphLister]
    /\ worker' = WorkerAfterSync
    /\ UNCHANGED <<fsFrame, graphLister, chans>>

FullSyncK8sStep ==
    \/ FsDequeueBegin
    \/ FsDequeueEnd
    \/ FsPublishVrf
    \/ FsStaticRouteSignal
    \/ FsStaticRouteTimeout
    \/ FsList
    \/ FsReturnError
    \/ FsPublish

(***************************************************************************)
(* DeleteModels and the ConfigMap informer of HandleConfigMap.  cm holds   *)
(* the deleteConfig value of the avi-k8s-config ConfigMap ("none" when the *)
(* ConfigMap does not exist, "" when the key is absent) and the place of   *)
(* the informer's callback thread, with the result of the last            *)
(* avicache.ValidateUserInput and the number of changes still to come.     *)
(***************************************************************************)
ConfigValues == {"true", "false", ""}
delConfigFromData(val) == val = "true"
AutoAnnotateNPLSvc == GetServiceType = "NodePortLocal"

\* DeleteModels saving nil for every model, the VRF model too.
DeletedGraphNil(graph) == NilGraph

\* What DeleteModels saves for a model: nil, or a VRF-only graph for a VRF graph.
DeletedGraph(graph) ==
    IF ~graph.nil /\ graph.IsVrf THEN NewAviObjectGraph(TRUE) ELSE NilGraph

\* DeleteModels enqueueing every model on the first bucket.
DeleteModelsOneBucket(cmNext) ==
    IF DOMAIN graphLister = {}
    THEN /\ ssStatus' = ssStatus \o <<"ObjectDeletionStart", "ObjectDeletionDone">>
         /\ cm' = [cmNext EXCEPT !.pc = "idle"]
         /\ UNCHANGED <<graphLister, graphQueue>>
    ELSE /\ ssStatus' = Append(ssStatus, "ObjectDeletionStart")
         /\ graphLister' = [m \in DOMAIN graphLister |-> DeletedGraph(graphLister[m])]
         /\ \E allModels \in Orders(DOMAIN graphLister) :
               graphQueue' = [graphQueue EXCEPT ![0] = @ \o allModels]
         /\ cm' = [cmNext EXCEPT !.pc = "DeleteModels"]

\* DeleteModels up to its wait: the start status, then every model of the
\* lister is overwritten and enqueued on its bucket.  Without models it sets
\* the done status and returns.  cmNext is the informer's state at the call.
DeleteModels(cmNext) ==
    IF DOMAIN graphLister = {}
    THEN /\ ssStatus' = ssStatus \o <<"ObjectDeletionStart", "ObjectDeletionDone">>
         /\ cm' = [cmNext EXCEPT !.pc = "idle"]
         /\ UNCHANGED <<graphLister, graphQueue>>
    ELSE /\ ssStatus' = Append(ssStatus, "ObjectDeletionStart")
         /\ graphLister' = [m \in DOMAIN graphLister |-> DeletedGraph(graphLister[m])]
         /\ \E allModels \in Orders(DOMAIN graphLister) :
               graphQueue' = PublishAll(graphQueue, allModels)
         /\ cm' = [cmNext EXCEPT !.pc = "DeleteModels"]

cmFrame == <<env, event, call, nsFilter, ingVars, restWorker, vsCache, routeStatus, histVars,
             pc, running, stopped, worker, fs>>

\* DeleteModels creates the channel it waits on.
SetConfigDeleteSyncChan ==
    /\ cm.pc = "DeleteModels"
    /\ chans' = [chans EXCEPT !.ConfigDeleteSyncChan = "open"]
    /\ cm' = [cm EXCEPT !.pc = "DeleteModelsWait"]
    /\ UNCHANGED <<cmFrame, ctlVars, graphLister, graphQueue, extVars>>

\* DeleteModelsReturn with a wait on the channel alone, without the timer.
DeleteModelsReturnNoTimer(status) ==
    /\ cm.pc = "DeleteModelsWait"
    /\ status = "ObjectDeletionDone"
    /\ chans.ConfigDeleteSyncChan = "signalled"
    /\ ssStatus' = Append(ssStatus, status)
    /\ nplAnnotations' = IF AutoAnnotateNPLSvc THEN FALSE ELSE nplAnnotations
    /\ seGroupLabels' = IF GetServiceType = "ClusterIP" THEN FALSE ELSE seGroupLabels
    /\ cm' = [cm EXCEPT !.pc = "idle"]
    /\ UNCHANGED <<cmFrame, ctlVars, graphLister, graphQueue, chans, apiShutdown>>

\* The wait of DeleteModels ends, by the signal or by the AviObjDeletionTime
\* timer; the NodePortLocal annotations are removed and the caller goes on.
DeleteModelsReturn(status) ==
    /\ cm.pc = "DeleteModelsWait"
    /\ status = "ObjectDeletionDone" => chans.ConfigDeleteSyncChan = "signalled"
    /\ ssStatus' = Append(ssStatus, status)
    /\ nplAnnotations' = IF AutoAnnotateNPLSvc THEN FALSE ELSE nplAnnotations
    /\ seGroupLabels' = IF GetServiceType = "ClusterIP" THEN FALSE ELSE seGroupLabels
    /\ cm' = [cm EXCEPT !.pc = "idle"]
    /\ UNCHANGED <<cmFrame, ctlVars, graphLister, graphQueue, chans, apiShutdown>>

\* The Add callback: for the controller's ConfigMap, as the informer first
\* lists it or as it is created with the value val.
ConfigMapAddFunc(isAvi, val, valid) ==
    /\ cm.pc = "idle"
    /\ IF ~isAvi
       THEN UNCHANGED <<cm, ctlVars, ssStatus>>
       ELSE /\ IF cm.deleteConfig = "none"
               THEN /\ cm.events < cm.limit
                    /\ cm' = [cm EXCEPT !.deleteConfig = val, !.added = TRUE,
                                        !.events = @ + 1, !.valid = valid]
               ELSE /\ ~cm.added
                    /\ val = cm.deleteConfig
                    /\ cm' = [cm EXCEPT !.added = TRUE, !.valid = valid]
            /\ ssStatus' = IF delConfigFromData(val) THEN ssStatus ELSE <<>>
            /\ DisableSync' = (~valid \/ delConfigFromData(val))
            /\ libDisableSync' = (~valid \/ delConfigFromData(val))
    /\ UNCHANGED <<cmFrame, graphLister, graphQueue, chans, apiShutdown, nplAnnotations,
                   seGroupLabels>>

\* The Update callback setting DisableSync but never clearing it.
ConfigMapUpdateFuncKeepFlag(isAvi, rvChanged, val, valid) ==
    /\ cm.pc = "idle"
    /\ cm.added
    /\ cm.deleteConfig # "none"
    /\ IF ~isAvi \/ ~rvChanged \/ val = cm.deleteConfig
       THEN UNCHANGED <<cm, ctlVars, ssStatus, graphLister, graphQueue, seGroupLabels>>
       ELSE /\ cm.events < cm.limit
            /\ DisableSync' = (DisableSync \/ ~valid \/ delConfigFromData(val))
            /\ libDisableSync' = (libDisableSync \/ ~valid \/ delConfigFromData(val))
            /\ LET cmNext == [cm EXCEPT !.deleteConfig = val, !.events = @ + 1,
                                         !.valid = valid]
               IN IF ~valid
                  THEN /\ cm' = cmNext
                       /\ UNCHANGED <<ssStatus, graphLister, graphQueue, seGroupLabels>>
                  ELSE IF delConfigFromData(val)
                  THEN /\ DeleteModels(cmNext)
                       /\ seGroupLabels' =
                            IF DOMAIN graphLister = {} /\ GetServiceType = "ClusterIP"
                            THEN FALSE ELSE seGroupLabels
                  ELSE /\ ssStatus' = <<>>
                       /\ cm' = [cmNext EXCEPT !.pc = "quickSync"]
                       /\ UNCHANGED <<graphLister, graphQueue, seGroupLabels>>
    /\ UNCHANGED <<cmFrame, chans, apiShutdown, nplAnnotations>>

\* The Update callback.  rvChanged: the two objects differ in ResourceVersion;
\* val: the new object's deleteConfig.
ConfigMapUpdateFunc(isAvi, rvChanged, val, valid) ==
    /\ cm.pc = "idle"
    /\ cm.added
    /\ cm.deleteConfig # "none"
    /\ IF ~isAvi \/ ~rvChanged \/ val = cm.deleteConfig
       THEN UNCHANGED <<cm, ctlVars, ssStatus, graphLister, graphQueue, seGroupLabels>>
       ELSE /\ cm.events < cm.limit
            /\ DisableSync' = (~valid \/ delConfigFromData(val))
            /\ libDisableSync' = (~valid \/ delConfigFromData(val))
            /\ LET cmNext == [cm EXCEPT !.deleteConfig = val, !.events = @ + 1,
                                         !.valid = valid]
               IN IF ~valid
                  THEN /\ cm' = cmNext
                       /\ UNCHANGED <<ssStatus, graphLister, graphQueue, seGroupLabels>>
                  ELSE IF delConfigFromData(val)
                  THEN /\ DeleteModels(cmNext)
                       /\ seGroupLabels' =
                            IF DOMAIN graphLister = {} /\ GetServiceType = "ClusterIP"
                            THEN FALSE ELSE seGroupLabels
                  ELSE /\ ssStatus' = <<>>
                       /\ cm' = [cmNext EXCEPT !.pc = "quickSync"]
                       /\ UNCHANGED <<graphLister, graphQueue, seGroupLabels>>
    /\ UNCHANGED <<cmFrame, chans, apiShutdown, nplAnnotations>>

\* The Delete callback running DeleteModels for the controller's ConfigMap.
ConfigMapDeleteFuncCleanup(isAvi) ==
    /\ cm.pc = "idle"
    /\ cm.added
    /\ apiShutdown' = TRUE
    /\ IF isAvi
       THEN /\ cm.deleteConfig # "none"
            /\ cm.events < cm.limit
            /\ DeleteModels([cm EXCEPT !.deleteConfig = "none", !.events = @ + 1])
       ELSE UNCHANGED <<cm, graphLister, graphQueue, ssStatus>>
    /\ UNCHANGED <<cmFrame, ctlVars, chans, nplAnnotations, seGroupLabels>>

\* The Delete callback: any ConfigMap the informer sees shuts the API server down.
ConfigMapDeleteFunc(isAvi) ==
    /\ cm.pc = "idle"
    /\ cm.added
    /\ apiShutdown' = TRUE
    /\ IF isAvi
       THEN /\ cm.deleteConfig # "none"
            /\ cm.events < cm.limit
            /\ cm' = [cm EXCEPT !.deleteConfig = "none", !.events = @ + 1]
       ELSE UNCHANGED cm
    /\ UNCHANGED <<cmFrame, ctlVars, graphLister, graphQueue, chans, ssStatus,
                   nplAnnotations, seGroupLabels>>

(***************************************************************************)
(* The main thread: HandleConfigMap, then InitController.                  *)
(***************************************************************************)
mainFrame == <<env, event, call, nsFilter, ingVars, restVars, graphLister, routeStatus, histVars,
               stopped, chans, ssStatus, nplAnnotations, seGroupLabels>>

\* HandleConfigMap reading only whether the ConfigMap exists, not its deleteConfig.
HandleConfigMapIgnoreDelete(clients, valid) ==
    /\ pc = "HandleConfigMap"
    /\ IF ~clients
       THEN /\ DisableSync' = TRUE
            /\ libDisableSync' = TRUE
            /\ apiShutdown' = TRUE
            /\ pc' = "exit"
            /\ UNCHANGED cm
       ELSE LET disable == ~valid \/ cm.deleteConfig = "none"
            IN /\ DisableSync' = disable
               /\ libDisableSync' = IF disable THEN libDisableSync ELSE FALSE
               /\ pc' = IF disable THEN "exit" ELSE "PopulateCache"
               /\ cm' = IF disable THEN [cm EXCEPT !.valid = valid]
                        ELSE [cm EXCEPT !.pc = "idle"]
               /\ UNCHANGED apiShutdown
    /\ UNCHANGED <<mainFrame, vsCache, running, worker, fs>>

\* HandleConfigMap.  clients: the REST client pool holds a client; valid: the
\* user input validates.  On an error the process does not go on to
\* InitController.
HandleConfigMap(clients, valid) ==
    /\ pc = "HandleConfigMap"
    /\ IF ~clients
       THEN /\ DisableSync' = TRUE
            /\ libDisableSync' = TRUE
            /\ apiShutdown' = TRUE
            /\ pc' = "exit"
            /\ UNCHANGED cm
       ELSE LET disable == ~valid \/ cm.deleteConfig = "none"
                                  \/ delConfigFromData(cm.deleteConfig)
            IN /\ DisableSync' = disable
               /\ libDisableSync' = IF disable THEN libDisableSync ELSE FALSE
               /\ pc' = IF disable THEN "exit" ELSE "PopulateCache"
               /\ cm' = IF disable THEN [cm EXCEPT !.valid = valid]
                        ELSE [cm EXCEPT !.pc = "idle"]
               /\ UNCHANGED apiShutdown
    /\ UNCHANGED <<mainFrame, vsCache, running, worker, fs>>

\* The parent VS keys the controller's cache can hold at boot.
BootCaches ==
    {{}, {VsKey(NamePrefix \o "old")},
     {VsKey(NamePrefix \o "old"), VsKey(GetL4VSName("a", "ns1"))}}

\* PopulateCache going on to the stale-data cleanup after a failed population.
PopulateCacheCleanupAlways(ok, keys) ==
    /\ pc = "PopulateCache"
    /\ IF ~ok
       THEN /\ DisableSync' = TRUE
            /\ apiShutdown' = TRUE
            /\ pc' = IF env.clusterNameValid THEN "CleanupVS" ELSE "SetupEventHandlers"
            /\ UNCHANGED vsCache
       ELSE /\ vsCache' = keys
            /\ pc' = IF env.clusterNameValid THEN "CleanupVS" ELSE "SetupEventHandlers"
            /\ UNCHANGED <<DisableSync, apiShutdown>>
    /\ UNCHANGED <<mainFrame, libDisableSync, running, worker, fs, cm>>

\* PopulateCache as InitController calls it, up to the stale-data cleanup.
PopulateCache(ok, keys) ==
    /\ pc = "PopulateCache"
    /\ IF ~ok
       THEN /\ DisableSync' = TRUE
            /\ apiShutdown' = TRUE
            /\ pc' = "SetupEventHandlers"
            /\ UNCHANGED vsCache
       ELSE /\ vsCache' = keys
            /\ pc' = IF env.clusterNameValid THEN "CleanupVS" ELSE "SetupEventHandlers"
            /\ UNCHANGED <<DisableSync, apiShutdown>>
    /\ UNCHANGED <<mainFrame, libDisableSync, running, worker, fs, cm>>

\* restlayer.CleanupVS(staleVSKey, true) returns and the cache entry is deleted.
CleanupVS ==
    /\ pc = "CleanupVS"
    /\ vsCache' = vsCache \ {VsKeyOfModel(staleVSKey)}
    /\ pc' = "SetupEventHandlers"
    /\ UNCHANGED <<mainFrame, ctlVars, running, worker, fs, cm, apiShutdown>>

\* SetupEventHandlers and Start: from here on the informers deliver events.
SetupEventHandlers ==
    /\ pc = "SetupEventHandlers"
    /\ pc' = "graphQueueRun"
    /\ UNCHANGED <<mainFrame, ctlVars, vsCache, running, worker, fs, cm, apiShutdown>>

\* queue.Run: the workers of a queue are started.
QueueRun(at, name, next) ==
    /\ pc = at
    /\ running' = Append(running, name)
    /\ pc' = next
    /\ UNCHANGED <<mainFrame, ctlVars, vsCache, worker, fs, cm, apiShutdown>>

\* FULL_SYNC_INTERVAL as InitController reads it: whether it parses, and its value.
IntervalParses == GetAdvancedL4 \/ env.fullSyncInterval # "bad"
IntervalIsZero == ~GetAdvancedL4 /\ env.fullSyncInterval = "0"

\* Without a parsed interval the boot full sync is skipped.
SkipBootSync ==
    /\ pc = "fullSyncInterval"
    /\ ~IntervalParses
    /\ pc' = "ingestionQueueRun"
    /\ UNCHANGED <<mainFrame, ctlVars, vsCache, running, worker, fs, cm, apiShutdown>>

\* The boot full sync starts on the main thread.
BootSyncBegin ==
    /\ pc = "fullSyncInterval"
    /\ IntervalParses
    /\ FullSyncK8sEntry("main")
    /\ pc' = "FullSyncK8s"
    /\ UNCHANGED <<env, event, call, ctlVars, nsFilter, ingVars, restVars, graphVars, routeStatus,
                   histVars, running, stopped, worker, cm, extVars>>

\* The boot full sync has returned: on an error InitController shuts the API
\* server down and returns; else it starts the full-sync thread unless the
\* interval is 0.
BootSyncEnd ==
    /\ pc = "FullSyncK8s"
    /\ fs.pc = "done"
    /\ IF fs.result = "error"
       THEN /\ apiShutdown' = TRUE
            /\ pc' = "returned"
            /\ UNCHANGED worker
       ELSE /\ worker' = IF IntervalIsZero THEN "nil" ELSE "idle"
            /\ pc' = "ingestionQueueRun"
            /\ UNCHANGED apiShutdown
    /\ UNCHANGED <<mainFrame, ctlVars, vsCache, running, fs, cm>>

\* The orchestrator loop receives the quickSync signal of the ConfigMap
\* handler and calls worker.QuickSync(): without a full-sync thread the call is
\* made on a nil pointer.
ReceiveQuickSync ==
    /\ pc = "loop"
    /\ cm.pc = "quickSync"
    /\ cm' = [cm EXCEPT !.pc = "idle"]
    /\ pc' = IF worker = "nil" THEN "panic" ELSE "QuickSync"
    /\ UNCHANGED <<mainFrame, ctlVars, vsCache, running, worker, fs, apiShutdown>>

\* The full-sync thread takes the quick-sync request and runs
\* QuickSyncFunction, which is FullSyncK8s, on its own thread.
QuickSync ==
    /\ pc = "QuickSync"
    /\ worker = "idle"
    /\ FullSyncK8sEntry("worker")
    /\ worker' = "quick"
    /\ pc' = "loop"
    /\ UNCHANGED <<env, event, call, ctlVars, nsFilter, ingVars, restVars, graphVars, routeStatus,
                   histVars, running, stopped, cm, extVars>>

\* ctrlCh is closed: the loop ends and the full-sync thread is shut down.
ReceiveCtrlCh ==
    /\ pc = "loop"
    /\ worker' = CASE worker = "idle" -> "shutdown"
                   [] worker = "quick" -> "stopping"
                   [] OTHER -> worker
    /\ pc' = "StopWorkers"
    /\ UNCHANGED <<mainFrame, ctlVars, vsCache, running, fs, cm, apiShutdown>>

\* The StopWorkers calls in the order of the Run calls.
StopOrderAsStarted == <<"graph", "ingestion", "fastretry", "slowretry", "status">>

\* The order of the StopWorkers calls.
StopOrder == <<"ingestion", "graph", "fastretry", "slowretry", "status">>

StopWorkers ==
    /\ pc = "StopWorkers"
    /\ stopped' = Append(stopped, StopOrder[Len(stopped) + 1])
    /\ pc' = IF Len(stopped) + 1 = Len(StopOrder) THEN "done" ELSE "StopWorkers"
    /\ UNCHANGED <<env, event, call, nsFilter, ingVars, restVars, graphVars, routeStatus, histVars,
                   ctlVars, running, worker, fs, cm, chans, extVars>>

\* InitControllerBoot with the ingestion queue run after the other four.
InitControllerBootIngestionLast ==
    \/ \E ok \in BOOLEAN, keys \in BootCaches : PopulateCache(ok, keys)
    \/ CleanupVS
    \/ SetupEventHandlers
    \/ QueueRun("graphQueueRun", "graph", "fullSyncInterval")
    \/ SkipBootSync
    \/ BootSyncBegin
    \/ BootSyncEnd
    \/ QueueRun("ingestionQueueRun", "fastretry", "fastRetryQueueRun")
    \/ QueueRun("fastRetryQueueRun", "slowretry", "slowRetryQueueRun")
    \/ QueueRun("slowRetryQueueRun", "status", "statusQueueRun")
    \/ QueueRun("statusQueueRun", "ingestion", "loop")

\* InitController from the cache population to the orchestrator loop.
InitControllerBoot ==
    \/ \E ok \in BOOLEAN, keys \in BootCaches : PopulateCache(ok, keys)
    \/ CleanupVS
    \/ SetupEventHandlers
    \/ QueueRun("graphQueueRun", "graph", "fullSyncInterval")
    \/ SkipBootSync
    \/ BootSyncBegin
    \/ BootSyncEnd
    \/ QueueRun("ingestionQueueRun", "ingestion", "fastRetryQueueRun")
    \/ QueueRun("fastRetryQueueRun", "fastretry", "slowRetryQueueRun")
    \/ QueueRun("slowRetryQueueRun", "slowretry", "statusQueueRun")
    \/ QueueRun("statusQueueRun", "status", "loop")

GraphLayerWorker ==
    \E b \in GraphWorkers :
        \/ SyncFromNodesLayerBegin(b)
        \/ \E ok \in BOOLEAN : SyncFromNodesLayerEnd(b, ok)

\* The ConfigMap informer delivers an event, for the controller's ConfigMap or
\* for another one.
ConfigMapChange ==
    \E isAvi \in BOOLEAN, valid \in BOOLEAN :
        \/ \E val \in ConfigValues : ConfigMapAddFunc(isAvi, val, valid)
        \/ \E rvChanged \in BOOLEAN, val \in ConfigValues :
              ConfigMapUpdateFunc(isAvi, rvChanged, val, valid)

ConfigMapDelete == \E isAvi \in BOOLEAN : ConfigMapDeleteFunc(isAvi)

DeleteModelsStep ==
    \/ SetConfigDeleteSyncChan
    \/ DeleteModelsReturn("ObjectDeletionDone")
    \/ DeleteModelsReturn("ObjectDeletionTimeout")

(***************************************************************************)
(* SpecBoot: a boot of the controller, from HandleConfigMap to the         *)
(* orchestrator loop, with the ConfigMap informer and the REST workers.    *)
(***************************************************************************)
\* Static routes synced with a full-sync interval; the same with an interval
\* that does not parse; a single-namespace sync without static-route sync.
BootEnvs ==
    {[EnvKubernetes EXCEPT !.namespaces = {"ns1"}],
     [EnvKubernetes EXCEPT !.namespaces = {"ns1"}, !.fullSyncInterval = "bad"],
     [EnvKubernetes EXCEPT !.namespaces = {"ns1"}, !.syncNamespace = "ns1",
                           !.disableStaticRouteSync = TRUE]}

InitBoot ==
    /\ env \in BootEnvs
    /\ DisableSync = TRUE
    /\ libDisableSync = FALSE
    /\ nsFilter = {}
    /\ workqueue = [w \in Workers |-> <<>>]
    /\ ingestion = [w \in Workers |-> NoKey]
    /\ graphQueue = [b \in GraphWorkers |-> <<>>]
    /\ restWorker = [b \in GraphWorkers |-> NoKey]
    /\ graphLister = <<>>
    /\ vsCache = {}
    /\ routeStatus = {}
    /\ pc = "HandleConfigMap"
    /\ running = <<>>
    /\ stopped = <<>>
    /\ worker = "nil"
    /\ fs = FsIdle
    /\ cm \in {[deleteConfig |-> v, pc |-> "stopped", added |-> FALSE, events |-> 0,
                 limit |-> MaxConfigEvents, valid |-> TRUE]
                  : v \in {"none"} \cup ConfigValues}
    /\ chans = [StaticRouteSyncChan |-> "nil", ConfigDeleteSyncChan |-> "nil"]
    /\ apiShutdown = FALSE
    /\ ssStatus = <<>>
    /\ nplAnnotations = (env.serviceType = "NodePortLocal")
    /\ seGroupLabels = (env.serviceType = "ClusterIP")
    /\ outcome = "none"
    /\ delivered = <<>>
    /\ processed = <<>>
    /\ event = NoEvent
    /\ call = NoCall

NextBoot ==
    \/ \E clients \in BOOLEAN, valid \in BOOLEAN : HandleConfigMap(clients, valid)
    \/ InitControllerBoot
    \/ ReceiveQuickSync
    \/ QuickSync
    \/ FullSyncK8sStep
    \/ GraphLayerWorker
    \/ ConfigMapChange
    \/ DeleteModelsStep

SpecBoot == InitBoot /\ [][NextBoot]_vars

(***************************************************************************)
(* Claims checked on SpecBoot.                                             *)
(***************************************************************************)
IsPrefix(s, t) == Len(s) <= Len(t) /\ \A i \in 1 .. Len(s) : s[i] = t[i]

\* The threads inside a REST apply, each with the ModelName it applies: the
\* GraphLayer workers, and the main thread during the stale-data cleanup.
Appliers ==
    {<<"graph", b, restWorker[b]>> : b \in {x \in GraphWorkers : restWorker[x] # NoKey}}
    \cup (IF pc = "CleanupVS" THEN {<<"main", 0, staleVSKey>>} ELSE {})

\* C3: no two threads apply the same ModelName at the same time: every
\* ModelName waiting on the GraphLayer queue or being applied by a worker is on
\* the bucket hash(ModelName) mod workerCount, and the stale-data cleanup runs
\* on the main thread while no GraphLayer worker has been started.
C3_AtMostOneApply ==
    /\ \A a1, a2 \in Appliers : a1[3] = a2[3] => a1 = a2
    /\ \A b \in GraphWorkers :
          /\ \A i \in 1 .. Len(graphQueue[b]) :
                Bkt(graphQueue[b][i], numGraphWorkers) = b
          /\ restWorker[b] # NoKey => Bkt(restWorker[b], numGraphWorkers) = b
    /\ pc = "CleanupVS" => ~QueueRuns("graph")

\* A worker applies a ModelName that also waits behind it on the same bucket,
\* handed over once by a full sync and once by DeleteModels, while another
\* worker applies another ModelName.
C3_Witness ==
    /\ \E b \in GraphWorkers :
          /\ restWorker[b] # NoKey
          /\ \E i \in 1 .. Len(graphQueue[b]) : graphQueue[b][i] = restWorker[b]
    /\ Cardinality(Appliers) > 1
    /\ cm.pc = "DeleteModelsWait"
    /\ fs.result = "ok"

\* C6: when the ingestion queue's workers have just been started, one
\* FullSyncK8s has run to completion on the main thread.
C6_FullSyncBeforeIngestion ==
    pc = "fastRetryQueueRun" =>
        /\ QueueRuns("graph") /\ QueueRuns("ingestion")
        /\ fs.runs = 1 /\ fs.thread = "main" /\ fs.pc = "done"

\* C7, as claimed: the queues are started in the order Graph, FastRetry,
\* SlowRetry, Status, Ingestion.
C7_IngestionStartedLast ==
    IsPrefix(running, <<"graph", "fastretry", "slowretry", "status", "ingestion">>)

\* C7, amended: the queues are started in the order Graph, Ingestion,
\* FastRetry, SlowRetry, Status.
C7_StartOrder ==
    IsPrefix(running, <<"graph", "ingestion", "fastretry", "slowretry", "status">>)

C7_Witness == pc = "loop" /\ Len(running) = 5 /\ fs.result = "ok"

\* C8: in a FullSyncK8s with static-route sync active the VRF ModelName is the
\* first one published, and the listings and every key other than a Node key
\* come after the wait has ended by the signal or by the timer.
C8_VrfFirstThenWait ==
    (StaticRouteSyncActive /\ fs.pc # "idle" /\ fs.result # "skipped") =>
        /\ fs.published # <<>> => fs.published[1] = VrfModelName
        /\ fs.pc \in {"list", "objects", "done"} =>
              /\ fs.wait \in {"signal", "timeout"}
              /\ fs.published # <<>>
        /\ (fs.key # NoKey /\ KeyKind(fs.key) # KindNode) =>
              fs.wait \in {"signal", "timeout"}
        /\ fs.wait = "signal" => chans.StaticRouteSyncChan = "signalled"

C8_Witness ==
    /\ StaticRouteSyncActive
    /\ fs.key # NoKey /\ KeyKind(fs.key) \in {KindService, KindL4LBService, KindIngress}
    /\ fs.wait = "signal"
    /\ fs.published = <<VrfModelName>>

\* C10, as claimed: when a FullSyncK8s has run to its end, every parent VS key
\* of the cache and every ModelName of the lister has been published.
C10_EverythingPublished ==
    (fs.pc = "done" /\ fs.result = "ok") =>
        /\ \A k \in fs.cacheKeys : ModelOfVsKey(k) \in Range(fs.published)
        /\ \A m \in fs.listerModels : m \in Range(fs.published)

\* C10, amended: when a FullSyncK8s that was not skipped for DisableSync and
\* met no listing error has completed, every ModelName of the lister has been
\* published, and so has every parent VS key of the cache, orphans included;
\* with SYNC_NAMESPACE set, every such key whose name starts with the shard
\* prefix or with the name prefix followed by that namespace.
C10_PublishedOnCompletion ==
    (fs.pc = "done" /\ fs.result = "ok") =>
        /\ \A m \in fs.listerModels : m \in Range(fs.published)
        /\ \A k \in fs.cacheKeys :
              (\/ GetNamespaceToSync = ""
               \/ HasPrefix(k.Name, ShardVSPrefix)
               \/ HasPrefix(k.Name, GetNamePrefix \o GetNamespaceToSync))
              => ModelOfVsKey(k) \in Range(fs.published)

\* A completed full sync that found an orphan key in the cache and a model in
\* the lister.
C10_Witness ==
    /\ fs.pc = "done" /\ fs.result = "ok"
    /\ GetNamespaceToSync = ""
    /\ \E k \in fs.cacheKeys : ModelOfVsKey(k) \notin fs.listerModels
    /\ \E m \in fs.listerModels : m # VrfModelName

(***************************************************************************)
(* SpecSync: a running controller whose ConfigMap changes: the Ingress     *)
(* informer, the ingestion and GraphLayer workers, DeleteModels, and the   *)
(* quick sync on the full-sync thread.                                     *)
(***************************************************************************)
InitSync ==
    \E disabled \in BOOLEAN :
        InitRunning([EnvKubernetes EXCEPT !.namespaces = {"ns1"}], disabled)

NextSync ==
    \/ IngressEvent
    \/ IngestionWorker
    \/ GraphLayerWorker
    \/ ConfigMapChange
    \/ DeleteModelsStep
    \/ ReceiveQuickSync
    \/ QuickSync
    \/ FullSyncK8sStep

SpecSync == InitSync /\ [][NextSync]_vars

\* C2: once DisableSync is true no ingestion worker takes a key off the
\* ingestion queue and into SyncFromIngestionLayer, so no key reaches
\* nodes.DequeueIngestion.
C2_NoKeyToGraphLayerWhenDisabled ==
    [][DisableSync =>
          \A w \in Workers : ingestion[w] = NoKey => ingestion'[w] = NoKey]_vars

\* The threads inside nodes.DequeueIngestion, each with its key: the ingestion
\* workers and the thread running FullSyncK8s.
InDequeueIngestion ==
    {<<"ingestion", w, ingestion[w]>> : w \in {x \in Workers : ingestion[x] # NoKey}}
    \cup (IF fs.key # NoKey THEN {<<fs.thread, 0, fs.key>>} ELSE {})

\* C5: no two threads are inside nodes.DequeueIngestion with keys of the same
\* namespace at the same time.
C5_SameNamespaceSequential ==
    \A t1, t2 \in InDequeueIngestion :
        KeyLocality(t1[3]) = KeyLocality(t2[3]) => t1 = t2

(***************************************************************************)
(* SpecWait: the boot full sync with static-route sync, from the start of  *)
(* the GraphLayer workers on.  The thread running FullSyncK8s keeps        *)
(* running and its 20 s timer fires; the REST layer may never answer.      *)
(***************************************************************************)
InitWait ==
    /\ env = [EnvKubernetes EXCEPT !.namespaces = {"ns1"}]
    /\ DisableSync = FALSE
    /\ libDisableSync = FALSE
    /\ nsFilter = {}
    /\ workqueue = [w \in Workers |-> <<>>]
    /\ ingestion = [w \in Workers |-> NoKey]
    /\ graphQueue = [b \in GraphWorkers |-> <<>>]
    /\ restWorker = [b \in GraphWorkers |-> NoKey]
    /\ graphLister = <<>>
    /\ vsCache \in BootCaches
    /\ routeStatus = {}
    /\ pc = "fullSyncInterval"
    /\ running = <<"graph">>
    /\ stopped = <<>>
    /\ worker = "nil"
    /\ fs = FsIdle
    /\ cm = [deleteConfig |-> "false", pc |-> "idle", added |-> TRUE, events |-> 0,
             limit |-> MaxConfigEvents, valid |-> TRUE]
    /\ chans = [StaticRouteSyncChan |-> "nil", ConfigDeleteSyncChan |-> "nil"]
    /\ apiShutdown = FALSE
    /\ ssStatus = <<>>
    /\ nplAnnotations = FALSE
    /\ seGroupLabels = TRUE
    /\ outcome = "none"
    /\ delivered = <<>>
    /\ processed = <<>>
    /\ event = NoEvent
    /\ call = NoCall

NextWait ==
    \/ BootSyncBegin
    \/ FullSyncK8sStep
    \/ GraphLayerWorker
    \/ BootSyncEnd

SpecWait == InitWait /\ [][NextWait]_vars /\ WF_vars(FullSyncK8sStep)

\* C9: a FullSyncK8s waiting for the static-route signal always leaves the
\* wait and runs to its end, whether or not the REST layer sends the signal.
C9_WaitEnds == (fs.pc = "wait") ~> (fs.pc = "done")

\* The wait ended by the timer, the channel never signalled, and the full sync
\* went on to its listings and published a model.
C9_Witness ==
    /\ fs.pc = "done" /\ fs.result = "ok"
    /\ fs.wait = "timeout"
    /\ chans.StaticRouteSyncChan = "open"
    /\ Len(fs.published) > 1

(***************************************************************************)
(* SpecConfig: a running controller after a teardown, and its ConfigMap    *)
(* informer.  deleteConfig is "true" and DeleteModels has returned; then   *)
(* the ConfigMap is changed, deleted and created again, and DeleteModels,  *)
(* the quick sync and the GraphLayer workers run.  The callback thread     *)
(* inside DeleteModels keeps running and its timer fires.                  *)
(***************************************************************************)
\* The models held before the teardown: none, or the VRF model and one L4 model.
RunningListers ==
    {<<>>,
     ListerSave(ListerSave(<<>>, VrfModelName, NewAviObjectGraph(TRUE)),
                L4ModelName("ns1", "a"), NewAviObjectGraph(FALSE))}

InitConfig ==
    /\ env = [EnvKubernetes EXCEPT !.namespaces = {"ns1"}]
    /\ DisableSync = TRUE
    /\ libDisableSync = TRUE
    /\ nsFilter = {}
    /\ workqueue = [w \in Workers |-> <<>>]
    /\ ingestion = [w \in Workers |-> NoKey]
    /\ graphQueue = [b \in GraphWorkers |-> <<>>]
    /\ restWorker = [b \in GraphWorkers |-> NoKey]
    /\ \E lister \in RunningListers :
          graphLister = [m \in DOMAIN lister |-> DeletedGraph(lister[m])]
    /\ vsCache = {}
    /\ routeStatus = {}
    /\ pc = "loop"
    /\ running = QueueNames
    /\ stopped = <<>>
    /\ worker = "idle"
    /\ fs = FsIdle
    /\ cm = [deleteConfig |-> "true", pc |-> "idle", added |-> TRUE, events |-> 0,
             limit |-> MaxToggles, valid |-> TRUE]
    /\ chans = [StaticRouteSyncChan |-> "nil",
                ConfigDeleteSyncChan |-> IF graphLister = <<>> THEN "nil" ELSE "signalled"]
    /\ apiShutdown = FALSE
    /\ ssStatus = <<"ObjectDeletionStart", "ObjectDeletionDone">>
    /\ nplAnnotations = FALSE
    /\ seGroupLabels = FALSE
    /\ outcome = "none"
    /\ delivered = <<>>
    /\ processed = <<>>
    /\ event = NoEvent
    /\ call = NoCall

NextConfig ==
    \/ ConfigMapChange
    \/ ConfigMapDelete
    \/ DeleteModelsStep
    \/ GraphLayerWorker
    \/ ReceiveQuickSync
    \/ QuickSync
    \/ FullSyncK8sStep

SpecConfig == InitConfig /\ [][NextConfig]_vars /\ WF_vars(DeleteModelsStep)

(***************************************************************************)
(* Properties of the ConfigMap handlers and of DeleteModels, on SpecConfig. *)
(***************************************************************************)
\* The informer delivered the controller's ConfigMap with deleteConfig "true",
\* created or changed to that value.
DeleteConfigEvent == cm'.events = cm.events + 1 /\ cm'.deleteConfig = "true"

\* This step entered DeleteModels: its first statement sets the start status.
DeleteModelsStarted ==
    /\ Len(ssStatus') > Len(ssStatus)
    /\ ssStatus'[Len(ssStatus) + 1] = "ObjectDeletionStart"

\* C11: whenever the avi-k8s-config ConfigMap is added, or updated, with
\* deleteConfig "true", DeleteModels is run.
C11_DeleteConfigRunsDeleteModels == [][DeleteConfigEvent => DeleteModelsStarted]_vars

\* How often a ModelName stands in a bucket of the queue.
Occurrences(bucket, modelName) ==
    Cardinality({i \in 1 .. Len(bucket) : bucket[i] = modelName})

\* C12: DeleteModels, for every ModelName the lister holds when it starts,
\* overwrites the graph with nil, or with a VRF-only graph when the graph has
\* IsVrf set, and enqueues the ModelName exactly once, on the bucket
\* hash(ModelName) mod workerCount.
C12_DeleteModelsOverwritesAndEnqueues ==
    [][DeleteModelsStarted =>
          /\ DOMAIN graphLister' = DOMAIN graphLister
          /\ \A b \in GraphWorkers : IsPrefix(graphQueue[b], graphQueue'[b])
          /\ \A m \in DOMAIN graphLister :
                /\ graphLister'[m] = IF graphLister[m].IsVrf
                                     THEN [nil |-> FALSE, IsVrf |-> TRUE, RetryCounter |-> 0]
                                     ELSE [nil |-> TRUE, IsVrf |-> FALSE, RetryCounter |-> 0]
                /\ \A b \in GraphWorkers :
                      Occurrences(graphQueue'[b], m) - Occurrences(graphQueue[b], m)
                        = IF b = Bkt(m, numGraphWorkers) THEN 1 ELSE 0]_vars

\* DeleteModels has overwritten a lister with the VRF model and an L4 model and
\* waits for the REST layer.
C12_Witness ==
    /\ cm.pc = "DeleteModels"
    /\ DOMAIN graphLister = {VrfModelName, L4ModelName("ns1", "a")}
    /\ graphLister[VrfModelName].IsVrf
    /\ graphLister[L4ModelName("ns1", "a")].nil
    /\ \E b \in GraphWorkers : Occurrences(graphQueue[b], L4ModelName("ns1", "a")) = 1

InDeleteModels == cm.pc \in {"DeleteModels", "DeleteModelsWait"}

\* The statuses set so far are whole DeleteModels runs, a start followed by one
\* end status, and a last start without an end while a run is under way.
StatusRuns ==
    /\ \A i \in 1 .. Len(ssStatus) :
          IF i % 2 = 1 THEN ssStatus[i] = "ObjectDeletionStart"
          ELSE ssStatus[i] \in {"ObjectDeletionDone", "ObjectDeletionTimeout"}
    /\ (Len(ssStatus) % 2 = 1) <=> InDeleteModels

\* The done status is set without a wait when there are no models, and else
\* after the signal of the REST layer; the timeout status ends a wait.
StatusCause ==
    /\ Len(ssStatus') = Len(ssStatus) + 2 =>
          /\ DOMAIN graphLister = {}
          /\ ssStatus'[Len(ssStatus')] = "ObjectDeletionDone"
    /\ (Len(ssStatus') = Len(ssStatus) + 1 /\ ~DeleteModelsStarted) =>
          /\ cm.pc = "DeleteModelsWait"
          /\ ssStatus'[Len(ssStatus')] = "ObjectDeletionDone" =>
                chans.ConfigDeleteSyncChan = "signalled"

DeleteConfigCleared ==
    /\ cm'.events = cm.events + 1
    /\ cm.deleteConfig = "true"
    /\ cm'.deleteConfig \notin {"true", "none"}
    /\ cm'.valid

\* The callback thread stands at its send on quickSyncCh.
QuickSyncSignalled == cm.pc = "quickSync"

AllOverwritten(lister) ==
    \A m \in DOMAIN lister : lister[m].nil \/ m = VrfModelName

\* deleteConfig is "true", sync is disabled and DeleteModels has overwritten
\* the models.
TornDown ==
    /\ cm.deleteConfig = "true" /\ cm.valid
    /\ DisableSync /\ libDisableSync
    /\ AllOverwritten(graphLister)

\* C15: after deleteConfig went true, false, true the end state is the full
\* teardown: DisableSync is true, and no FullSyncK8s triggered by the
\* intermediate "false" rebuilds or publishes a model once the final
\* DeleteModels has overwritten the models.
C15_TeardownIsFinal ==
    [][(TornDown /\ cm'.deleteConfig = "true") =>
          /\ DisableSync'
          /\ AllOverwritten(graphLister')
          /\ fs'.published = fs.published]_vars

\* The informer delivered the deletion of the controller's ConfigMap.
ConfigMapDeleted == cm.deleteConfig # "none" /\ cm'.deleteConfig = "none"

\* C16: when the ConfigMap is deleted, API-server shutdown is signalled and no
\* cleanup is attempted: DeleteModels is not run, no graph is overwritten and
\* no ModelName is enqueued.
C16_DeleteShutsDownWithoutCleanup ==
    [][ConfigMapDeleted =>
          /\ apiShutdown'
          /\ ~DeleteModelsStarted /\ ~InDeleteModels'
          /\ UNCHANGED <<ssStatus, graphLister, graphQueue, ctlVars>>]_vars

\* The ConfigMap was deleted while the lister held a built model: the model is
\* still there.
C16_Witness ==
    /\ cm.deleteConfig = "none"
    /\ apiShutdown
    /\ \E m \in DOMAIN graphLister : ~graphLister[m].nil /\ ~graphLister[m].IsVrf

(***************************************************************************)
(* SpecStop: a running controller whose ctrlCh is closed while the        *)
(* ConfigMap changes and a quick sync and the GraphLayer workers run, with *)
(* a full-sync thread or, for a full-sync interval of 0, without one.  The *)
(* main thread keeps running.                                              *)
(***************************************************************************)
StopEnvs ==
    {[EnvKubernetes EXCEPT !.namespaces = {"ns1"}],
     [EnvKubernetes EXCEPT !.namespaces = {"ns1"}, !.fullSyncInterval = "0"]}

InitStop ==
    /\ env \in StopEnvs
    /\ DisableSync = FALSE
    /\ libDisableSync = FALSE
    /\ nsFilter = {}
    /\ workqueue = [w \in Workers |-> <<>>]
    /\ ingestion = [w \in Workers |-> NoKey]
    /\ graphQueue = [b \in GraphWorkers |-> <<>>]
    /\ restWorker = [b \in GraphWorkers |-> NoKey]
    /\ graphLister = <<>>
    /\ vsCache = {}
    /\ routeStatus = {}
    /\ pc = "loop"
    /\ running = QueueNames
    /\ stopped = <<>>
    /\ worker = IF IntervalIsZero THEN "nil" ELSE "idle"
    /\ fs = FsIdle
    /\ cm = [deleteConfig |-> "false", pc |-> "idle", added |-> TRUE, events |-> 0,
             limit |-> MaxConfigEvents, valid |-> TRUE]
    /\ chans = [StaticRouteSyncChan |-> "nil", ConfigDeleteSyncChan |-> "nil"]
    /\ apiShutdown = FALSE
    /\ ssStatus = <<>>
    /\ nplAnnotations = FALSE
    /\ seGroupLabels = TRUE
    /\ outcome = "none"
    /\ delivered = <<>>
    /\ processed = <<>>
    /\ event = NoEvent
    /\ call = NoCall

NextStop ==
    \/ GraphLayerWorker
    \/ ConfigMapChange
    \/ ReceiveQuickSync
    \/ QuickSync
    \/ FullSyncK8sStep
    \/ ReceiveCtrlCh
    \/ StopWorkers

SpecStop == InitStop /\ [][NextStop]_vars /\ WF_vars(StopWorkers)

\* worker.Shutdown() has been called, or there is no full-sync thread.
WorkerShutdown == worker \in {"shutdown", "stopping", "nil"}

\* C17: when ctrlCh is closed the orchestrator stops the full-sync timer
\* worker, then the queue workers in the order Ingestion, Graph, FastRetry,
\* SlowRetry, Status, and then InitController returns.
C17_StopOrder ==
    /\ [](pc \in {"StopWorkers", "done"} =>
            /\ WorkerShutdown
            /\ IsPrefix(stopped, <<"ingestion", "graph", "fastretry", "slowretry", "status">>))
    /\ [](pc = "loop" => stopped = <<>>)
    /\ [](pc = "done" => Len(stopped) = 5)
    /\ (pc = "StopWorkers") ~> (pc = "done")

\* InitController has returned after stopping a full-sync thread that was in a
\* quick sync, and the five queues.
C17_Witness ==
    /\ pc = "done"
    /\ stopped = <<"ingestion", "graph", "fastretry", "slowretry", "status">>
    /\ worker = "shutdown" /\ fs.thread = "worker" /\ fs.pc = "done"

(***************************************************************************)
(* Properties of the boot, on SpecBoot.                                    *)
(***************************************************************************)
\* PopulateCache returned an error in this step of InitController.
CachePopulateFails == pc = "PopulateCache" /\ ~apiShutdown /\ apiShutdown'

\* The boot full sync runs after a failed cache population.
BootSyncAfterFailedCache == pc = "FullSyncK8s" /\ fs.thread = "main" /\ apiShutdown

\* C18: if the cache population fails at boot, DisableSync is set to true and
\* API-server shutdown is signalled, and the boot full sync publishes no
\* ModelName.
C18_FailedCacheBlocksBootSync ==
    /\ [][CachePopulateFails => DisableSync']_vars
    /\ [](BootSyncAfterFailedCache => fs.published = <<>>)

(***************************************************************************)
(* SpecStart: the start of the process up to the first queue.Run:          *)
(* HandleConfigMap, the cache population with the stale-data cleanup, the  *)
(* event handlers and the GraphLayer queue, with the ConfigMap informer.   *)
(***************************************************************************)
StartEnvs ==
    {[EnvKubernetes EXCEPT !.namespaces = {"ns1"}],
     [EnvKubernetes EXCEPT !.namespaces = {"ns1"}, !.clusterNameValid = FALSE]}

\* The cache as AviObjCachePopulate can leave it, also with the entry of the
\* dummy VS of a previous run.
StartCaches ==
    BootCaches \cup {{VsKeyOfModel(staleVSKey), VsKey(GetL4VSName("a", "ns1"))}}

InitStart ==
    /\ env \in StartEnvs
    /\ DisableSync = TRUE
    /\ libDisableSync = FALSE
    /\ nsFilter = {}
    /\ workqueue = [w \in Workers |-> <<>>]
    /\ ingestion = [w \in Workers |-> NoKey]
    /\ graphQueue = [b \in GraphWorkers |-> <<>>]
    /\ restWorker = [b \in GraphWorkers |-> NoKey]
    /\ graphLister = <<>>
    /\ vsCache = {}
    /\ routeStatus = {}
    /\ pc = "HandleConfigMap"
    /\ running = <<>>
    /\ stopped = <<>>
    /\ worker = "nil"
    /\ fs = FsIdle
    /\ cm \in {[deleteConfig |-> v, pc |-> "stopped", added |-> FALSE, events |-> 0,
                 limit |-> MaxConfigEvents, valid |-> TRUE]
                  : v \in {"none"} \cup ConfigValues}
    /\ chans = [StaticRouteSyncChan |-> "nil", ConfigDeleteSyncChan |-> "nil"]
    /\ apiShutdown = FALSE
    /\ ssStatus = <<>>
    /\ nplAnnotations = FALSE
    /\ seGroupLabels = TRUE
    /\ outcome = "none"
    /\ delivered = <<>>
    /\ processed = <<>>
    /\ event = NoEvent
    /\ call = NoCall

NextStart ==
    \/ \E clients \in BOOLEAN, valid \in BOOLEAN : HandleConfigMap(clients, valid)
    \/ \E ok \in BOOLEAN, keys \in StartCaches : PopulateCache(ok, keys)
    \/ CleanupVS
    \/ SetupEventHandlers
    \/ QueueRun("graphQueueRun", "graph", "fullSyncInterval")
    \/ ConfigMapChange

SpecStart == InitStart /\ [][NextStart]_vars

\* HandleConfigMap has a reason for its error: no REST client (the only case
\* in which it signals the shutdown), user input that does not validate, a
\* ConfigMap that cannot be read, or deleteConfig "true".
HandleConfigMapMustFail ==
    /\ pc = "HandleConfigMap"
    /\ pc' # pc
    /\ \/ apiShutdown'
       \/ ~cm'.valid
       \/ cm.deleteConfig \in {"none", "true"}

\* C19: at boot HandleConfigMap leaves DisableSync true and returns an error
\* when the ConfigMap cannot be read, carries deleteConfig "true", the user
\* input does not validate, or no REST client exists; ingestion stays blocked:
\* InitController is not entered, no queue runs and no key is queued.
C19_HandleConfigMapErrorBlocks ==
    /\ [][HandleConfigMapMustFail => (pc' = "exit" /\ DisableSync')]_vars
    /\ [][pc = "exit" => (pc' = "exit" /\ DisableSync')]_vars
    /\ [](pc = "exit" =>
            /\ DisableSync
            /\ running = <<>>
            /\ \A w \in Workers : workqueue[w] = <<>> /\ ingestion[w] = NoKey)

\* HandleConfigMap has returned its error for a ConfigMap with deleteConfig
\* "true", with a REST client and valid user input.
C19_Witness ==
    /\ pc = "exit" /\ DisableSync
    /\ cm.deleteConfig = "true" /\ cm.valid /\ ~apiShutdown

\* The stale-data cleanup is due: the population succeeded and the cluster
\* name is valid (HandleConfigMap has let the boot go on with a REST client).
CleanupDue == ~apiShutdown /\ env.clusterNameValid

\* C20: at boot, after a successful cache population, with a valid cluster name
\* and a REST client, the key tenant/DummyVSForStaleData is cleaned up through
\* the REST layer and its VS cache entry is removed before any queue worker is
\* started; when the cache population fails the cleanup is not attempted.
C20_StaleCleanupBeforeWorkers ==
    /\ [][(pc = "PopulateCache" /\ pc' # pc) =>
             (pc' = "CleanupVS" <=> (~apiShutdown' /\ env.clusterNameValid))]_vars
    /\ [][(pc = "CleanupVS" /\ pc' # pc) =>
             [Namespace |-> Tenant, Name |-> "DummyVSForStaleData"] \notin vsCache']_vars
    /\ [](pc = "CleanupVS" => (CleanupDue /\ running = <<>>))
    /\ []((running # <<>> /\ CleanupDue) =>
             [Namespace |-> Tenant, Name |-> "DummyVSForStaleData"] \notin vsCache)

\* The cache was populated with the entry of the dummy VS, the cleanup removed
\* it, and the first queue has been started.
C20_Witness ==
    /\ running = <<"graph">>
    /\ CleanupDue
    /\ vsCache = {VsKey(GetL4VSName("a", "ns1"))}

(***************************************************************************)
(* The periodic FullSync of the full-sync thread, and SpecFullSync: a      *)
(* running controller whose graphs are retried by the fast-retry layer     *)
(* while the timer of the full-sync thread fires.                          *)
(***************************************************************************)
MaxRetryCounter == 2   \* the RetryCounter values explored: 0 .. MaxRetryCounter

\* AviObjectGraph.SetRetryCounter(): the counter is back at its reset value.
SetRetryCounter(graph) == [graph EXCEPT !.RetryCounter = 0]

\* FullSync also publishing every model, as its commented-out line would.
FullSyncPublishing(clients, keys) ==
    IF ~clients
    THEN UNCHANGED <<graphLister, vsCache, graphQueue>>
    ELSE /\ vsCache' = IF GetAdvancedL4 THEN vsCache ELSE keys
         /\ graphLister' = [m \in DOMAIN graphLister |->
                               IF graphLister[m].nil THEN graphLister[m]
                               ELSE SetRetryCounter(graphLister[m])]
         /\ \E allModels \in Orders(DOMAIN graphLister) :
               graphQueue' = PublishAll(graphQueue, allModels)

\* FullSync.  clients: the REST client pool holds a client; keys: the parent VS
\* keys AviCacheRefresh finds.  The retry counter of every model that has a
\* graph is reset; nothing is published.
FullSync(clients, keys) ==
    IF ~clients
    THEN UNCHANGED <<graphLister, vsCache, graphQueue>>
    ELSE /\ vsCache' = IF GetAdvancedL4 THEN vsCache ELSE keys
         /\ graphLister' = [m \in DOMAIN graphLister |->
                               IF graphLister[m].nil THEN graphLister[m]
                               ELSE SetRetryCounter(graphLister[m])]
         /\ UNCHANGED graphQueue

syncFrame == <<env, event, call, ctlVars, nsFilter, ingVars, restWorker, routeStatus, histVars,
               pc, running, stopped, fs, cm, chans, extVars>>

\* The timer of the full-sync thread fires: the thread enters SyncFunction.
FullSyncTick ==
    /\ worker = "idle"
    /\ worker' = "sync"
    /\ UNCHANGED <<syncFrame, graphLister, vsCache, graphQueue>>

\* SyncFunction, which is FullSync, returns.  HandleConfigMap let the boot go
\* on only with a REST client in the pool.
FullSyncReturn ==
    /\ worker = "sync"
    /\ \E keys \in {vsCache} \cup BootCaches : FullSync(TRUE, keys)
    /\ worker' = "idle"
    /\ UNCHANGED syncFrame

\* retry.DequeueFastRetry: the model is re-admitted to the REST layer and the
\* retry counter of its graph goes up.
DequeueFastRetry(modelName) ==
    /\ modelName \in DOMAIN graphLister
    /\ ~graphLister[modelName].nil
    /\ graphLister[modelName].RetryCounter < MaxRetryCounter
    /\ Len(graphQueue[Bkt(modelName, numGraphWorkers)]) < MaxRetryCounter
    /\ graphLister' = [graphLister EXCEPT ![modelName].RetryCounter = @ + 1]
    /\ graphQueue' = Publish(graphQueue, modelName)
    /\ UNCHANGED <<syncFrame, vsCache, worker>>

SyncFromFastRetryLayer == \E modelName \in DOMAIN graphLister : DequeueFastRetry(modelName)

\* The lister of the running controller: the VRF model, and an L4 model that
\* is built or deleted.
SyncListers ==
    {ListerSave(ListerSave(<<>>, VrfModelName, NewAviObjectGraph(TRUE)),
                L4ModelName("ns1", "a"), g) : g \in {NewAviObjectGraph(FALSE), NilGraph}}

InitFullSync ==
    /\ env = [EnvKubernetes EXCEPT !.namespaces = {"ns1"}]
    /\ DisableSync = FALSE
    /\ libDisableSync = FALSE
    /\ nsFilter = {}
    /\ workqueue = [w \in Workers |-> <<>>]
    /\ ingestion = [w \in Workers |-> NoKey]
    /\ graphQueue = [b \in GraphWorkers |-> <<>>]
    /\ restWorker = [b \in GraphWorkers |-> NoKey]
    /\ graphLister \in SyncListers
    /\ vsCache = {VsKeyOfModel(m) : m \in {n \in DOMAIN graphLister :
                                             ~graphLister[n].nil /\ ~graphLister[n].IsVrf}}
    /\ routeStatus = {}
    /\ pc = "loop"
    /\ running = QueueNames
    /\ stopped = <<>>
    /\ worker = "idle"
    /\ fs = FsIdle
    /\ cm = [deleteConfig |-> "false", pc |-> "idle", added |-> TRUE, events |-> 0,
             limit |-> MaxConfigEvents, valid |-> TRUE]
    /\ chans = [StaticRouteSyncChan |-> "nil", ConfigDeleteSyncChan |-> "nil"]
    /\ apiShutdown = FALSE
    /\ ssStatus = <<>>
    /\ nplAnnotations = FALSE
    /\ seGroupLabels = TRUE
    /\ outcome = "none"
    /\ delivered = <<>>
    /\ processed = <<>>
    /\ event = NoEvent
    /\ call = NoCall

NextFullSync ==
    \/ FullSyncTick
    \/ FullSyncReturn
    \/ SyncFromFastRetryLayer
    \/ GraphLayerWorker

SpecFullSync == InitFullSync /\ [][NextFullSync]_vars

\* C21: a periodic FullSync resets the RetryCounter of every graph held in the
\* lister to 0 and publishes no ModelName to the REST layer.
C21_FullSyncResetsAndPublishesNothing ==
    [][(worker = "sync" /\ worker' = "idle") =>
          /\ DOMAIN graphLister' = DOMAIN graphLister
          /\ \A m \in DOMAIN graphLister :
                /\ graphLister'[m].nil = graphLister[m].nil
                /\ graphLister'[m].IsVrf = graphLister[m].IsVrf
                /\ graphLister'[m].RetryCounter = 0
          /\ graphQueue' = graphQueue]_vars

\* A FullSync has returned over a lister whose graphs had been retried, with a
\* model still waiting in the queue of the REST layer.
C21_Witness ==
    /\ worker = "idle"
    /\ \A m \in DOMAIN graphLister : graphLister[m].RetryCounter = 0
    /\ \E b \in GraphWorkers : Len(graphQueue[b]) = MaxRetryCounter

(***************************************************************************)
(* The informers hold an event before its callback runs: the variable      *)
(* event carries the objects of the event, the callback reads them.        *)
(* A resync delivers an Update whose two objects are the same object: with *)
(* an unchanged ResourceVersion the contents are unchanged.                *)
(***************************************************************************)
EventTypes == {"Add", "Update", "Delete"}
PrimaryBackend == "s1"

IngressEvents ==
    [kind : {KindIngress}, type : {"Add"}, ns : Namespaces, name : Names]
    \cup [kind : {KindIngress}, type : {"Delete"}, ns : Namespaces, name : Names,
          wrap : DeleteObjs]
    \cup {e \in [kind : {KindIngress}, type : {"Update"}, ns : Namespaces, name : Names,
                 oldRV : {OldVersion}, newRV : Versions,
                 oldSpec : {OldVersion}, newSpec : Versions,
                 oldAnn : {OldVersion}, newAnn : Versions] :
             e.newRV = e.oldRV => e.newSpec = e.oldSpec /\ e.newAnn = e.oldAnn}

RouteEvents ==
    [kind : {KindRoute}, type : {"Add"}, ns : Namespaces, name : Names,
     to : {PrimaryBackend}, alts : BackendLists]
    \cup [kind : {KindRoute}, type : {"Delete"}, ns : Namespaces, name : Names,
          wrap : DeleteObjs]
    \cup {e \in [kind : {KindRoute}, type : {"Update"}, ns : Namespaces, name : Names,
                 oldRV : {OldVersion}, newRV : Versions,
                 oldSpec : {OldVersion}, newSpec : Versions,
                 oldAnn : {OldVersion}, newAnn : Versions,
                 to : {PrimaryBackend}, alts : BackendLists] :
             e.newRV = e.oldRV => e.newSpec = e.oldSpec /\ e.newAnn = e.oldAnn}

SecretEvents ==
    [kind : {KindSecret}, type : {"Add"}, ns : SecretNamespaces, name : SecretNames]
    \cup [kind : {KindSecret}, type : {"Delete"}, ns : SecretNamespaces, name : SecretNames,
          wrap : DeleteObjs]
    \cup {e \in [kind : {KindSecret}, type : {"Update"}, ns : SecretNamespaces,
                 name : SecretNames, oldRV : {OldVersion}, newRV : Versions,
                 oldData : {OldVersion}, newData : Versions] :
             e.newRV = e.oldRV => e.newData = e.oldData}

ServiceEvents ==
    [kind : {KindService}, type : {"Add"}, ns : Namespaces, name : Names, isSvcLb : BOOLEAN]
    \cup [kind : {KindService}, type : {"Delete"}, ns : Namespaces, name : Names,
          isSvcLb : BOOLEAN, wrap : DeleteObjs]

\* A Namespace event carries, besides the two objects, what the listers of the
\* registered informers return for the namespace when the callback lists them.
NamespaceEvents ==
    [kind : {"Namespace"}, type : {"Add"}, ns : Namespaces, labels : LabelValues]
    \cup {e \in [kind : {"Namespace"}, type : {"Update"}, ns : Namespaces,
                 oldRV : {OldVersion}, newRV : Versions,
                 oldLabels : LabelValues, newLabels : LabelValues,
                 ings : IF env.ingressInformer THEN NameLists ELSE {<<>>},
                 routes : IF env.routeInformer THEN NameLists ELSE {<<>>},
                 svcs : ServiceLists,
                 gws : IF UseServicesAPI THEN NameLists ELSE {<<>>}] :
             e.newRV = e.oldRV => e.newLabels = e.oldLabels}

\* The node-information objects of the CNI: Calico BlockAffinity, OpenShift
\* HostSubnet.  A Delete may deliver a tombstone in place of the object.
NodeInfoWatchEvents ==
    [kind : {"NodeInfo"}, type : {"Add"}, found : BOOLEAN, node : NodeNames]
    \cup [kind : {"NodeInfo"}, type : {"Delete"}, found : BOOLEAN, node : NodeNames,
          wrap : DeleteObjs]

WatchedEvents ==
    (IF IngressRegistered THEN IngressEvents ELSE {})
    \cup (IF RouteRegistered THEN RouteEvents ELSE {})
    \cup (IF NamespaceRegistered THEN NamespaceEvents ELSE {})
    \cup SecretEvents
    \cup ServiceEvents
    \cup NodeInfoWatchEvents

\* An informer takes the next event of its watch.
InformerWatch ==
    /\ outcome # "pending"
    /\ Len(delivered) < MaxEvents
    /\ event' \in WatchedEvents
    /\ outcome' = "pending"
    /\ UNCHANGED <<env, call, ctlVars, nsFilter, ingVars, restVars, graphVars, routeStatus,
                   delivered, processed, bootVars>>

\* The informer calls the callback registered for the event it holds.
IngressCallback ==
    /\ outcome = "pending" /\ event.kind = KindIngress
    /\ \/ event.type = "Add" /\ IngressAddFunc(event.ns, event.name)
       \/ event.type = "Delete" /\ IngressDeleteFunc(event.wrap, event.ns, event.name)
       \/ event.type = "Update"
          /\ IngressUpdateFunc(event.ns, event.name, event.oldRV, event.newRV,
                               event.oldSpec, event.newSpec, event.oldAnn, event.newAnn)

RouteCallback ==
    /\ outcome = "pending" /\ event.kind = KindRoute
    /\ \/ event.type = "Add" /\ RouteAddFunc(event.ns, event.name, event.to, event.alts)
       \/ event.type = "Delete" /\ RouteDeleteFunc(event.wrap, event.ns, event.name)
       \/ event.type = "Update"
          /\ RouteUpdateFunc(event.ns, event.name, event.oldRV, event.newRV,
                             event.oldSpec, event.newSpec, event.to, event.alts)

SecretCallback ==
    /\ outcome = "pending" /\ event.kind = KindSecret
    /\ \/ event.type = "Add" /\ SecretAddFunc(event.ns, event.name)
       \/ event.type = "Delete" /\ SecretDeleteFunc(event.wrap, event.ns, event.name)
       \/ event.type = "Update"
          /\ SecretUpdateFunc(event.ns, event.name, event.oldRV, event.newRV,
                              event.oldData, event.newData)

ServiceCallback ==
    /\ outcome = "pending" /\ event.kind = KindService
    /\ \/ event.type = "Add" /\ SvcAddFunc(event.ns, event.name, event.isSvcLb)
       \/ event.type = "Delete"
          /\ SvcDeleteFunc(event.wrap, event.ns, event.name, event.isSvcLb)

NamespaceCallback ==
    /\ outcome = "pending" /\ event.kind = "Namespace"
    /\ \/ event.type = "Add" /\ NamespaceAddFunc(event.ns, event.labels)
       \/ event.type = "Update"
          /\ NamespaceUpdateFunc(event.ns, event.oldRV, event.newRV, event.oldLabels,
                                 event.newLabels, event.ings, event.routes, event.svcs,
                                 event.gws)

NodeInfoCallback ==
    /\ outcome = "pending" /\ event.kind = "NodeInfo"
    /\ \/ event.type = "Add"
          /\ \/ BlockAffinityAddFunc(event.found, event.node)
             \/ HostSubnetAddFunc(event.found, event.node)
       \/ event.type = "Delete"
          /\ \/ BlockAffinityDeleteFunc(event.wrap, event.found, event.node)
             \/ HostSubnetDeleteFunc(event.wrap, event.found, event.node)

\* A Kubernetes cluster with a namespace label selector, and the OpenShift one.
EventEnvs == {[EnvKubernetes EXCEPT !.nsMigration = TRUE], EnvOpenShift}

InitEvents == \E e \in EventEnvs, disabled \in BOOLEAN : InitRunning(e, disabled)

NextEvents ==
    \/ InformerWatch
    \/ IngressCallback
    \/ RouteCallback
    \/ SecretCallback
    \/ ServiceCallback
    \/ NamespaceCallback
    \/ NodeInfoCallback

SpecEvents == InitEvents /\ [][NextEvents]_vars

\* The callback of the event of this kind and type returns in this step.
Called(kind, type) ==
    outcome = "pending" /\ outcome' # "pending" /\ event.kind = kind /\ event.type = type

\* The step enqueues exactly this key, on the bucket of the namespace.
Enqueued(key, ns) ==
    /\ workqueue' = [workqueue EXCEPT ![Bkt(ns, numWorkers)] = Append(@, key)]
    /\ outcome' = "enqueued"

EventKey == MakeKey(event.kind, event.ns, event.name)

\* C22: an Ingress or Route Update delivered with sync enabled and the namespace
\* accepted enqueues its key if and only if the Spec hash or the Annotations
\* hash of the new object differs from the old object's.
C22_UpdateEnqueuedIffSpecOrAnnotations ==
    [][\A kind \in {KindIngress, KindRoute} :
          (Called(kind, "Update") /\ ~DisableSync /\ CheckIfNamespaceAccepted(event.ns))
          => (Enqueued(EventKey, event.ns)
              <=> (event.newSpec # event.oldSpec \/ event.newAnn # event.oldAnn))]_vars

\* The event the informer holds is about the controller's own auth secret.
OwnSecretEvent ==
    event.kind = KindSecret /\ event.ns = AKONamespace /\ event.name = AviSecret

\* C23: no Add, Update or Delete event of the secret avi-secret of the AKO
\* namespace enqueues a key; with sync enabled, an Update of any other Secret
\* enqueues its key if and only if both its Data and its ResourceVersion differ.
C23_OwnSecretNeverEnqueued ==
    [][/\ \A type \in EventTypes :
            (Called(KindSecret, type) /\ OwnSecretEvent) => UNCHANGED workqueue
       /\ (Called(KindSecret, "Update") /\ ~OwnSecretEvent /\ ~DisableSync)
            => (Enqueued(EventKey, event.ns)
                <=> (event.newData # event.oldData /\ event.newRV # event.oldRV))]_vars

\* The labels of the Namespace Update the informer holds stop matching the
\* selector, or start matching it.
RelabelledOut == LabelsMatch(event.oldLabels) /\ ~LabelsMatch(event.newLabels)
RelabelledIn == ~LabelsMatch(event.oldLabels) /\ LabelsMatch(event.newLabels)

\* The keys this step appends to the bucket of the event's namespace.
AddedKeys ==
    LET b == Bkt(event.ns, numWorkers)
    IN SubSeq(workqueue'[b], Len(workqueue[b]) + 1, Len(workqueue'[b]))

\* The step enqueues one key for every Ingress, Route, Service and Gateway that
\* the listers hold for the namespace of the event, and nothing else.
Replayed ==
    LET b == Bkt(event.ns, numWorkers)
        added == {AddedKeys[i] : i \in 1 .. Len(AddedKeys)}
    IN /\ \A w \in Workers \ {b} : workqueue'[w] = workqueue[w]
       /\ Len(workqueue'[b]) =
             Len(workqueue[b]) + Len(event.ings) + Len(event.routes)
                               + Len(event.svcs) + Len(event.gws)
       /\ SubSeq(workqueue'[b], 1, Len(workqueue[b])) = workqueue[b]
       /\ \A i \in 1 .. Len(event.ings) : MakeKey(KindIngress, event.ns, event.ings[i]) \in added
       /\ \A i \in 1 .. Len(event.routes) : MakeKey(KindRoute, event.ns, event.routes[i]) \in added
       /\ \A i \in 1 .. Len(event.gws) : MakeKey(KindGateway, event.ns, event.gws[i]) \in added
       /\ \A i \in 1 .. Len(event.svcs) :
             \/ MakeKey(KindService, event.ns, event.svcs[i][1]) \in added
             \/ MakeKey(KindL4LBService, event.ns, event.svcs[i][1]) \in added

\* C24 as stated: a Namespace Update whose labels stop matching removes the
\* namespace from the accepted list and enqueues one key per Ingress, Route,
\* Service and Gateway of the namespace; an Update whose labels start matching
\* adds the namespace and enqueues the same keys.
C24_RelabelReplays ==
    [][Called("Namespace", "Update")
         => /\ RelabelledOut => (nsFilter' = nsFilter \ {event.ns} /\ Replayed)
            /\ RelabelledIn => (nsFilter' = nsFilter \cup {event.ns} /\ Replayed)]_vars

\* C24: with sync enabled, a Namespace Update whose labels stop matching removes
\* the namespace from the accepted list, one whose labels start matching adds
\* it, and both enqueue one key per Ingress, Route, Service and Gateway of the
\* namespace; with sync disabled the Update changes neither list nor queue.
C24_RelabelReplaysWhenSyncEnabled ==
    [][Called("Namespace", "Update")
         => IF DisableSync THEN UNCHANGED <<nsFilter, workqueue>>
            ELSE /\ RelabelledOut => (nsFilter' = nsFilter \ {event.ns} /\ Replayed)
                 /\ RelabelledIn => (nsFilter' = nsFilter \cup {event.ns} /\ Replayed)]_vars

\* A namespace that was accepted was relabelled out and two of its objects replayed.
C24_Witness ==
    /\ event.kind = "Namespace" /\ event.type = "Update"
    /\ RelabelledOut
    /\ outcome = "enqueued"
    /\ event.ns \notin nsFilter
    /\ \E other \in Namespaces : other \in nsFilter
    /\ Len(delivered) = 2
    /\ Len(event.ings) + Len(event.routes) + Len(event.svcs) + Len(event.gws) = 2

\* Some service name occurs more than once among the primary backend and the
\* alternate backends of the Route the informer holds.
DuplicateBackends ==
    LET backends == <<event.to>> \o event.alts
    IN \E i, j \in 1 .. Len(backends) : i # j /\ backends[i] = backends[j]

\* The Route event passes the gates of its callback: sync enabled, namespace
\* accepted and, for an Update, a new ResourceVersion with a changed Spec.
RouteAdmitted ==
    /\ ~DisableSync
    /\ CheckIfNamespaceAccepted(event.ns)
    /\ event.type = "Update" => (event.newRV # event.oldRV /\ event.newSpec # event.oldSpec)

\* C25: a Route Add or admitted Update publishes the DuplicateBackends status
\* error on the Route if and only if a service name occurs more than once among
\* its primary and alternate backends, and enqueues the Route key either way.
C25_DuplicateBackendsStatusAndEnqueue ==
    [][\A type \in {"Add", "Update"} :
          (Called(KindRoute, type) /\ RouteAdmitted)
          => /\ Enqueued(EventKey, event.ns)
             /\ IF DuplicateBackends
                THEN routeStatus' = routeStatus \cup {EventKey}
                ELSE routeStatus' = routeStatus]_vars

\* A Route whose alternate backend repeats the primary backend was enqueued with
\* the status error.
C25_Witness ==
    /\ event.kind = KindRoute /\ event.type \in {"Add", "Update"}
    /\ event.alts = <<event.to>>
    /\ outcome = "enqueued"
    /\ routeStatus = {EventKey}
    /\ delivered = <<[key |-> EventKey, ns |-> event.ns]>>

DeleteKinds == {KindIngress, KindRoute, KindSecret, KindService, "NodeInfo"}

\* C26: no informer callback panics on the object it is handed: a Delete that
\* delivers a tombstone or an object of another type is dropped or unwrapped,
\* and a tombstone holding an object of the expected kind enqueues what the
\* object itself enqueues.
C26_NoCallbackPanics ==
    [][\A kind \in DeleteKinds :
          Called(kind, "Delete")
          => /\ outcome' # "panic"
             /\ ~IsObj(event.wrap) => UNCHANGED workqueue]_vars

(***************************************************************************)
(* The naming helpers of lib.go, called on names drawn from small sets     *)
(* under every setting of ENABLE_EVH, ADVANCED_L4 and                      *)
(* PASSTHROUGH_SHARD_SIZE.  The variable call holds the arguments of one   *)
(* call and, once the helper has returned, its result.                     *)
(***************************************************************************)
PassthroughPrefix == "Shared-Passthrough-"

PassthroughShardSize ==
    IF env.passthroughShardSize \in ShardSizes
    THEN ShardSizeMap(env.passthroughShardSize)
    ELSE 1

\* The outcome of utils.Bkt with no bucket: a division by zero.
Panic == "panic"

GetPassthroughShardVSName(s) ==
    LET shardSize == PassthroughShardSize
        shardVsPrefix == ClusterName \o "--" \o PassthroughPrefix
    IN IF shardSize = 0 THEN Panic
       ELSE Encode(shardVsPrefix \o ToString(Bkt(s, shardSize)))

RawNames == {"c1--ns1-a", "c1--a-b-c", NamePrefix \o LongNamespace \o "-" \o LongService}
DashedNamespaces == {"a", "a-b"}
DashedServices == {"c", "b-c"}
PassthroughHosts == {"p.x", "q.x", "a.ns1.com", "a.ns2.com"}

EncodeCalls ==
    [fn : {"Encode"}, s : RawNames, done : {FALSE}, name : {""}, warned : {FALSE}]

\* GetL4VSName and GetModelName on two Services of the tenant.
L4NameCalls ==
    [fn : {"GetL4VSName"}, ns1 : DashedNamespaces, svc1 : DashedServices,
     ns2 : DashedNamespaces, svc2 : DashedServices, done : {FALSE},
     name1 : {""}, name2 : {""}, model1 : {""}, model2 : {""}]

PassthroughCalls ==
    [fn : {"GetPassthroughShardVSName"}, host : PassthroughHosts, done : {FALSE},
     shardSize : {0}, name : {""}]

EncodeCall ==
    /\ call.fn = "Encode" /\ ~call.done
    /\ call' = [call EXCEPT !.done = TRUE, !.name = Encode(call.s),
                            !.warned = CheckObjectNameLength(Encode(call.s))]
    /\ UNCHANGED <<env, event, ctlVars, nsFilter, ingVars, restVars, graphVars, routeStatus,
                   histVars, bootVars>>

GetL4VSNameCall ==
    /\ call.fn = "GetL4VSName" /\ ~call.done
    /\ call' = [call EXCEPT !.done = TRUE,
                   !.name1 = GetL4VSName(call.svc1, call.ns1),
                   !.name2 = GetL4VSName(call.svc2, call.ns2),
                   !.model1 = GetModelName(GetTenant, GetL4VSName(call.svc1, call.ns1)),
                   !.model2 = GetModelName(GetTenant, GetL4VSName(call.svc2, call.ns2))]
    /\ UNCHANGED <<env, event, ctlVars, nsFilter, ingVars, restVars, graphVars, routeStatus,
                   histVars, bootVars>>

GetPassthroughShardVSNameCall ==
    /\ call.fn = "GetPassthroughShardVSName" /\ ~call.done
    /\ call' = [call EXCEPT !.done = TRUE, !.shardSize = PassthroughShardSize,
                            !.name = GetPassthroughShardVSName(call.host)]
    /\ UNCHANGED <<env, event, ctlVars, nsFilter, ingVars, restVars, graphVars, routeStatus,
                   histVars, bootVars>>

PassthroughSettings == ShardSizes \cup {""}
NameEnvs ==
    {[EnvKubernetes EXCEPT !.evh = evh, !.advL4 = advL4, !.passthroughShardSize = size] :
        evh \in BOOLEAN, advL4 \in BOOLEAN, size \in PassthroughSettings}

InitNames ==
    /\ \E e \in NameEnvs : RunningState(e, FALSE)
    /\ event = NoEvent
    /\ call \in EncodeCalls \cup L4NameCalls \cup PassthroughCalls

NextNames ==
    \/ EncodeCall
    \/ GetL4VSNameCall
    \/ GetPassthroughShardVSNameCall

SpecNames == InitNames /\ [][NextNames]_vars

\* C27: Encode returns its input unchanged, whatever its length, when EVH is
\* disabled or Advanced L4 is on; otherwise it returns the cluster name prefix
\* followed by the 40 hex digits of the SHA-1 of the raw name, untruncated.
C27_EncodeIdentityOrPrefixedSha1 ==
    (call.fn = "Encode" /\ call.done)
    => IF ~env.evh \/ env.advL4
       THEN call.name = call.s
       ELSE /\ Len(call.name) = Len(ClusterName) + 2 + 40
            /\ SubSeq(call.name, 1, Len(ClusterName) + 2) = ClusterName \o "--"
            /\ SubSeq(call.name, Len(ClusterName) + 3, Len(call.name)) = Sha1Hex(call.s)

\* Encode has returned an overlong raw name whole, and with EVH its digest form.
C27_Witness ==
    /\ call.fn = "Encode" /\ call.done
    /\ call.s = NamePrefix \o LongNamespace \o "-" \o LongService
    /\ \/ ~env.evh /\ call.warned /\ Len(call.name) > AVI_OBJ_NAME_MAX_LENGTH
       \/ env.evh /\ ~env.advL4 /\ ~call.warned /\ call.name # call.s

\* C28: two distinct (namespace, service) pairs never get the same L4 VS name,
\* nor the same ModelName, from GetL4VSName and GetModelName.
C28_L4NamesUnique ==
    (call.fn = "GetL4VSName" /\ call.done /\ <<call.ns1, call.svc1>> # <<call.ns2, call.svc2>>)
    => (call.name1 # call.name2 /\ call.model1 # call.model2)

\* C29: with EVH disabled, under every PASSTHROUGH_SHARD_SIZE setting,
\* GetPassthroughShardVSName returns the cluster passthrough prefix followed by
\* the index hash(host) mod shardSize, with shardSize >= 1 and the index in
\* 0 .. shardSize - 1; under SMALL every host gets index 0.
C29_PassthroughShardIndex ==
    (call.fn = "GetPassthroughShardVSName" /\ call.done /\ ~env.evh)
    => /\ call.shardSize >= 1
       /\ \E i \in 0 .. (call.shardSize - 1) :
             /\ i = Bkt(call.host, call.shardSize)
             /\ call.name = "c1--Shared-Passthrough-" \o ToString(i)
             /\ env.passthroughShardSize = "SMALL" => i = 0

(***************************************************************************)
(* SpecQueues: InitController creates the GraphLayer queue under every     *)
(* SHARD_VS_SIZE setting, with and without Advanced L4, and the graph      *)
(* layer publishes ModelNames to it.                                       *)
(***************************************************************************)
ShardVsSizeSettings == ShardSizes \cup {""}
QueueEnvs ==
    {[EnvKubernetes EXCEPT !.advL4 = advL4, !.shardVsSize = size] :
        advL4 \in BOOLEAN, size \in ShardVsSizeSettings}

QueueModelNames ==
    {VrfModelName, L4ModelName("ns1", "a"), L4ModelName("ns2", "a"),
     GetModelName(GetTenant, NamePrefix \o ShardVSPrefix \o "-0")}

\* utils.SharedWorkQueue(..., &graphQueueParams, ...): the GraphLayer queue
\* gets numGraphWorkers buckets, each with its worker.
SharedWorkQueue ==
    /\ pc = "SharedWorkQueue"
    /\ graphQueue' = [b \in GraphWorkers |-> <<>>]
    /\ restWorker' = [b \in GraphWorkers |-> NoKey]
    /\ pc' = "loop"
    /\ UNCHANGED <<env, event, call, ctlVars, nsFilter, ingVars, graphVars, routeStatus,
                   histVars, running, stopped, worker, fs, cm, chans, extVars>>

\* A ModelName is published to the queue: a queue without workers has no
\* bucket index, the modulo panics.
PublishKeyToRestLayer(modelName) ==
    /\ pc = "loop"
    /\ Len(processed) < MaxEvents
    /\ processed' = Append(processed, modelName)
    /\ IF numGraphWorkers = 0
       THEN pc' = "panic" /\ UNCHANGED graphQueue
       ELSE graphQueue' = Publish(graphQueue, modelName) /\ UNCHANGED pc
    /\ UNCHANGED <<env, event, call, ctlVars, nsFilter, ingVars, restWorker, graphVars,
                   routeStatus, outcome, delivered, running, stopped, worker, fs, cm, chans,
                   extVars>>

InitQueues ==
    /\ env \in QueueEnvs
    /\ DisableSync = FALSE
    /\ libDisableSync = FALSE
    /\ nsFilter = {}
    /\ workqueue = [w \in Workers |-> <<>>]
    /\ ingestion = [w \in Workers |-> NoKey]
    /\ graphQueue = <<>>
    /\ restWorker = <<>>
    /\ graphLister = <<>>
    /\ vsCache = {}
    /\ routeStatus = {}
    /\ pc = "SharedWorkQueue"
    /\ running = <<>>
    /\ stopped = <<>>
    /\ worker = "nil"
    /\ fs = FsIdle
    /\ cm = [deleteConfig |-> "false", pc |-> "idle", added |-> TRUE, events |-> 0,
             limit |-> MaxConfigEvents, valid |-> TRUE]
    /\ chans = [StaticRouteSyncChan |-> "nil", ConfigDeleteSyncChan |-> "nil"]
    /\ apiShutdown = FALSE
    /\ ssStatus = <<>>
    /\ nplAnnotations = FALSE
    /\ seGroupLabels = TRUE
    /\ outcome = "none"
    /\ delivered = <<>>
    /\ processed = <<>>
    /\ event = NoEvent
    /\ call = NoCall

NextQueues ==
    \/ SharedWorkQueue
    \/ \E modelName \in QueueModelNames : PublishKeyToRestLayer(modelName)

SpecQueues == InitQueues /\ [][NextQueues]_vars

\* C31: the REST-facing queue is created with at least one worker; its worker
\* count is 8 for LARGE, 4 for MEDIUM, 1 for SMALL and 8 for DEDICATED (whose
\* size 0 is replaced), and every published ModelName sits on the bucket
\* hash(ModelName) mod worker count, which is defined under every setting.
C31_GraphQueueHasWorkers ==
    pc # "SharedWorkQueue"
    => LET M == Cardinality(DOMAIN graphQueue)
       IN /\ M >= 1
          /\ DOMAIN graphQueue = 0 .. (M - 1)
          /\ pc # "panic"
          /\ (~env.advL4 /\ env.shardVsSize \in ShardSizes)
             => M = (CASE env.shardVsSize = "LARGE" -> 8
                       [] env.shardVsSize = "MEDIUM" -> 4
                       [] env.shardVsSize = "SMALL" -> 1
                       [] env.shardVsSize = "DEDICATED" -> 8)
          /\ \A b \in DOMAIN graphQueue : \A i \in 1 .. Len(graphQueue[b]) :
                b = Bkt(graphQueue[b][i], M)

\* Under DEDICATED the queue was created with 8 workers and a ModelName was
\* published to a bucket other than the first.
C31_Witness ==
    /\ env.shardVsSize = "DEDICATED" /\ ~env.advL4
    /\ pc = "loop"
    /\ Cardinality(DOMAIN graphQueue) = 8
    /\ \E b \in DOMAIN graphQueue : b # 0 /\ graphQueue[b] # <<>>

(***************************************************************************)
(* The wait of DeleteModels for the REST layer, on SpecConfig.             *)
(***************************************************************************)
\* C32: the channel on which DeleteModels waits for the REST layer's
\* completion signal exists from the first enqueue on: while DeleteModels has
\* enqueued ModelNames and has not returned, lib.ConfigDeleteSyncChan is the
\* channel of this run, open or already signalled for it, so no completion
\* signal sent after the first enqueue is lost.
C32_ChannelCreatedBeforeEnqueue ==
    /\ [](cm.pc = "DeleteModels" => chans.ConfigDeleteSyncChan = "open")
    /\ [][(cm.pc = "DeleteModels"
           /\ \E b \in GraphWorkers : restWorker[b] # NoKey /\ restWorker'[b] = NoKey)
          => chans'.ConfigDeleteSyncChan \in {"open", "signalled"}
             /\ (chans'.ConfigDeleteSyncChan = "signalled"
                 => chans.ConfigDeleteSyncChan = "open")]_vars

(***************************************************************************)
(* The quickSync signal and the orchestrator loop, on SpecStop.            *)
(***************************************************************************)
\* C33: whenever the orchestrator loop receives a quickSync signal a full-sync
\* thread exists to serve it: the loop goes on to worker.QuickSync(), which
\* runs FullSyncK8s, and the main thread never fails, whatever the value of
\* FULL_SYNC_INTERVAL.
C33_QuickSyncAlwaysServed ==
    /\ [](pc # "panic")
    /\ [][(pc = "loop" /\ cm.pc = "quickSync" /\ cm'.pc = "idle")
          => worker # "nil" /\ pc' = "QuickSync"]_vars

(***************************************************************************)
(* SpecSignal: the running controller of SpecStop with its threads         *)
(* scheduled fairly: the orchestrator loop takes a ready case of its       *)
(* select, the full-sync thread and the GraphLayer workers go on, and      *)
(* InitController finishes its StopWorkers calls.                          *)
(***************************************************************************)
SpecSignal ==
    /\ InitStop /\ [][NextStop]_vars
    /\ WF_vars(ReceiveQuickSync)
    /\ WF_vars(QuickSync)
    /\ WF_vars(FullSyncK8sStep)
    /\ WF_vars(GraphLayerWorker)
    /\ WF_vars(StopWorkers)

\* C34: the ConfigMap update handler never blocks forever in its send on
\* quickSyncCh: every send is eventually received by the orchestrator loop,
\* also after the loop has ended.
C34_QuickSyncSendReceived == (cm.pc = "quickSync") ~> (cm.pc = "idle")

\* C35: only the deletion of the controller's own ConfigMap signals the
\* API-server shutdown: a ConfigMap callback that calls lib.ShutdownApi is the
\* Delete callback for avi-k8s-config, and the deletion of any other ConfigMap
\* changes nothing.
C35_OnlyOwnConfigMapDeleteShutsDown ==
    [][(apiShutdown' # apiShutdown) => ConfigMapDeleted]_vars

\* C36: the controller's DisableSync field and the process-wide
\* lib.DisableSync flag agree whenever no ConfigMap handler is in the middle of
\* its two assignments: from the return of HandleConfigMap on, also after a
\* failed cache population and after every ConfigMap Add or Update event.
C36_DisableSyncFlagsAgree ==
    pc # "HandleConfigMap" => DisableSync = libDisableSync

(***************************************************************************)
(* The accepted-namespace set under Namespace events, on SpecEvents.  The  *)
(* old object of an Update is the object of the previous event delivered   *)
(* for the namespace, so the set agrees with the most recent labels after  *)
(* every event iff every Add leaves it so and every Update keeps it so.    *)
(***************************************************************************)
\* The accepted set agrees with these labels for the namespace of the event.
FilterAgrees(filter, labels) == (event.ns \in filter) <=> LabelsMatch(labels)

\* C37 as stated: after every Namespace Add or Update event, delivered with
\* DisableSync false or true, the namespace is in the accepted-namespace set
\* iff the labels of that event match the selector.
C37_FilterFollowsLabels ==
    /\ [][Called("Namespace", "Add") => FilterAgrees(nsFilter', event.labels)]_vars
    /\ [][(Called("Namespace", "Update") /\ FilterAgrees(nsFilter, event.oldLabels))
          => FilterAgrees(nsFilter', event.newLabels)]_vars

\* C37, amended: after a Namespace Add or Update event delivered while
\* DisableSync is false the namespace is in the accepted-namespace set iff the
\* labels of that event match the selector; an event delivered while
\* DisableSync is true leaves the set as it was.
C37_FilterFollowsLabelsWhenSyncEnabled ==
    /\ [][(Called("Namespace", "Add") /\ ~DisableSync)
          => FilterAgrees(nsFilter', event.labels)]_vars
    /\ [][(Called("Namespace", "Update") /\ ~DisableSync
           /\ FilterAgrees(nsFilter, event.oldLabels))
          => FilterAgrees(nsFilter', event.newLabels)]_vars
    /\ [][((Called("Namespace", "Add") \/ Called("Namespace", "Update")) /\ DisableSync)
          => nsFilter' = nsFilter]_vars

\* With sync enabled a namespace that had been accepted was added again with
\* labels that do not match, and left the accepted set.
C37_Witness ==
    /\ ~DisableSync
    /\ outcome = "nsfilter"
    /\ event.kind = "Namespace" /\ event.type = "Add"
    /\ ~LabelsMatch(event.labels)
    /\ event.ns \notin nsFilter
    /\ nsFilter # {}


(***************************************************************************)
(* SpecScoped: a running controller in namespace-scoped sync mode          *)
(* (SYNC_NAMESPACE set), under two cluster names, with and without the     *)
(* static-route sync; the ConfigMap is changed and a quick sync runs       *)
(* FullSyncK8s over a lister and a cache that hold the L4 model of the     *)
(* namespace.                                                              *)
(***************************************************************************)
ClusterNames == {"c1", "Shared-L7"}
ScopedEnvs ==
    {[EnvKubernetes EXCEPT !.namespaces = {"ns1"}, !.syncNamespace = "ns1",
                           !.clusterName = c, !.disableStaticRouteSync = d] :
        c \in ClusterNames, d \in BOOLEAN}

InitScoped ==
    /\ env \in ScopedEnvs
    /\ DisableSync = FALSE
    /\ libDisableSync = FALSE
    /\ nsFilter = {}
    /\ workqueue = [w \in Workers |-> <<>>]
    /\ ingestion = [w \in Workers |-> NoKey]
    /\ graphQueue = [b \in GraphWorkers |-> <<>>]
    /\ restWorker = [b \in GraphWorkers |-> NoKey]
    /\ graphLister \in SyncListers
    /\ vsCache = {VsKeyOfModel(m) : m \in {n \in DOMAIN graphLister :
                                             ~graphLister[n].nil /\ ~graphLister[n].IsVrf}}
    /\ routeStatus = {}
    /\ pc = "loop"
    /\ running = QueueNames
    /\ stopped = <<>>
    /\ worker = "idle"
    /\ fs = FsIdle
    /\ cm = [deleteConfig |-> "false", pc |-> "idle", added |-> TRUE, events |-> 0,
             limit |-> MaxConfigEvents, valid |-> TRUE]
    /\ chans = [StaticRouteSyncChan |-> "nil", ConfigDeleteSyncChan |-> "nil"]
    /\ apiShutdown = FALSE
    /\ ssStatus = <<>>
    /\ nplAnnotations = FALSE
    /\ seGroupLabels = TRUE
    /\ outcome = "none"
    /\ delivered = <<>>
    /\ processed = <<>>
    /\ event = NoEvent
    /\ call = NoCall

NextScoped ==
    \/ ConfigMapChange
    \/ DeleteModelsStep
    \/ ReceiveQuickSync
    \/ QuickSync
    \/ FullSyncK8sStep
    \/ GraphLayerWorker

SpecScoped == InitScoped /\ [][NextScoped]_vars

(***************************************************************************)
(* What one FullSyncK8s run publishes.                                     *)
(***************************************************************************)
\* C38: within one FullSyncK8s run every ModelName is published to the REST
\* layer at most once: not twice for a ModelName held by both the Object Cache
\* and the Graph Lister, not again for the VRF ModelName, and neither in
\* namespace-scoped sync mode.
C38_PublishedAtMostOnce ==
    \A i, j \in 1 .. Len(fs.published) : i # j => fs.published[i] # fs.published[j]

(***************************************************************************)
(* The return paths of InitController, on SpecBoot.                        *)
(***************************************************************************)
\* C39: every queue whose workers InitController has started has been stopped
\* (StopWorkers) when InitController has returned, on the return after the
\* orchestrator loop and on the return taken when the boot FullSyncK8s fails.
C39_StartedQueuesStoppedAtReturn ==
    pc \in {"returned", "done"}
    => \A i \in 1 .. Len(running) : \E j \in 1 .. Len(stopped) : stopped[j] = running[i]

(***************************************************************************)
(* SpecToken: lib.RefreshAuthToken.  call holds the activation and what it *)
(* works on: the authtoken of the avi-secret, the tokens the LB controller *)
(* holds, the token found as the current one and the token created.  A     *)
(* token is a number, 0 standing for the empty string.  Every REST call    *)
(* and every Secret read or write can fail.                                *)
(***************************************************************************)
MaxRefreshes == 2         \* RefreshAuthToken calls in one behaviour
retryCount == 5

tokenFrame == <<env, event, ctlVars, nsFilter, ingVars, restVars, graphVars, routeStatus,
                histVars, bootVars>>

TokenIdle ==
    [fn |-> "RefreshAuthToken", pc |-> "idle", runs |-> 0, retry |-> 0, secret |-> 1,
     secretAtEntry |-> 1, lbTokens |-> {1}, tokensAtEntry |-> {1}, ctrlAuthToken |-> 1,
     oldTokenID |-> 0, token |-> 0, updated |-> FALSE, result |-> "none"]

\* The boot call of InitController or a tick of the token thread.  The
\* controller properties hold the token of the Secret or one issued earlier.
RefreshAuthTokenEntry(ctrlAuthToken) ==
    /\ call.fn = "RefreshAuthToken"
    /\ call.pc \in {"idle", "return"}
    /\ call.runs < MaxRefreshes
    /\ call' = [call EXCEPT !.pc = "client", !.runs = @ + 1, !.retry = 0,
                            !.secretAtEntry = call.secret,
                            !.tokensAtEntry = call.lbTokens,
                            !.ctrlAuthToken = ctrlAuthToken,
                            !.oldTokenID = 0, !.token = 0, !.updated = FALSE,
                            !.result = "none"]
    /\ UNCHANGED tokenFrame

\* utils.NewAviRestClientWithToken.
NewAviRestClientWithToken(ok) ==
    /\ call.fn = "RefreshAuthToken" /\ call.pc = "client"
    /\ call' = IF ok THEN [call EXCEPT !.pc = "list"]
               ELSE [call EXCEPT !.pc = "return", !.result = "clientFailed"]
    /\ UNCHANGED tokenFrame

\* utils.GetAuthTokenWithRetry: the tokens of the user are listed.
GetAuthTokenWithRetry(ok) ==
    /\ call.fn = "RefreshAuthToken" /\ call.pc = "list"
    /\ call' = IF ok THEN [call EXCEPT !.pc = "find"]
               ELSE [call EXCEPT !.pc = "return", !.result = "listFailed"]
    /\ UNCHANGED tokenFrame

\* utils.GetTokenFromRestObj: the ID of the token in use, empty when the list
\* carries none for it, and whether the token is due for a refresh.
GetTokenFromRestObj(found, refresh) ==
    /\ call.fn = "RefreshAuthToken" /\ call.pc = "find"
    /\ call' = IF ~found THEN [call EXCEPT !.pc = "return", !.result = "findFailed"]
               ELSE IF ~refresh THEN [call EXCEPT !.pc = "return", !.result = "skipped"]
               ELSE [call EXCEPT !.pc = "create",
                        !.oldTokenID = IF call.ctrlAuthToken \in call.lbTokens
                                       THEN call.ctrlAuthToken ELSE 0]
    /\ UNCHANGED tokenFrame

\* utils.CreateAuthTokenWithRetry, and the type test of its response.
CreateAuthTokenWithRetry(ok, parsed) ==
    /\ call.fn = "RefreshAuthToken" /\ call.pc = "create"
    /\ call' = IF ~ok THEN [call EXCEPT !.pc = "return", !.result = "createFailed"]
               ELSE IF ~parsed
               THEN [call EXCEPT !.pc = "return", !.result = "parseFailed",
                                 !.lbTokens = @ \cup {call.runs + 1}]
               ELSE [call EXCEPT !.pc = "getSecret", !.retry = 0,
                                 !.token = call.runs + 1,
                                 !.lbTokens = @ \cup {call.runs + 1}]
    /\ UNCHANGED tokenFrame

\* One round of the loop of GetAviSecretWithRetry.
GetAviSecretWithRetry(ok) ==
    /\ call.fn = "RefreshAuthToken" /\ call.pc = "getSecret"
    /\ call' = IF ok THEN [call EXCEPT !.pc = "updateSecret", !.retry = 0]
               ELSE IF call.retry + 1 < retryCount THEN [call EXCEPT !.retry = @ + 1]
               ELSE [call EXCEPT !.pc = "return", !.result = "getSecretFailed"]
    /\ UNCHANGED tokenFrame

\* UpdateAviSecretWithRetry going on to the deletion when every round failed.
UpdateAviSecretWithRetryIgnoreError(ok) ==
    /\ call.fn = "RefreshAuthToken" /\ call.pc = "updateSecret"
    /\ call' = IF ok THEN [call EXCEPT !.pc = "delete", !.secret = call.token,
                                       !.updated = TRUE]
               ELSE IF call.retry + 1 < retryCount THEN [call EXCEPT !.retry = @ + 1]
               ELSE [call EXCEPT !.pc = "delete", !.result = "updateSecretFailed"]
    /\ UNCHANGED tokenFrame

\* One round of the loop of UpdateAviSecretWithRetry: the Secret is written
\* with the new token in Data["authtoken"], or the write fails.
UpdateAviSecretWithRetry(ok) ==
    /\ call.fn = "RefreshAuthToken" /\ call.pc = "updateSecret"
    /\ call' = IF ok THEN [call EXCEPT !.pc = "delete", !.secret = call.token,
                                       !.updated = TRUE]
               ELSE IF call.retry + 1 < retryCount THEN [call EXCEPT !.retry = @ + 1]
               ELSE [call EXCEPT !.pc = "return", !.result = "updateSecretFailed"]
    /\ UNCHANGED tokenFrame

\* utils.DeleteAuthTokenWithRetry for the old token, when there is one.
DeleteAuthTokenWithRetry(ok) ==
    /\ call.fn = "RefreshAuthToken" /\ call.pc = "delete"
    /\ call' = IF call.oldTokenID # 0 /\ ok
               THEN [call EXCEPT !.pc = "return", !.result = "refreshed",
                                 !.lbTokens = @ \ {call.oldTokenID}]
               ELSE [call EXCEPT !.pc = "return",
                        !.result = IF call.oldTokenID = 0 THEN "refreshed"
                                   ELSE "deleteFailed"]
    /\ UNCHANGED tokenFrame

InitToken ==
    /\ RunningState(EnvKubernetes, FALSE)
    /\ event = NoEvent
    /\ call \in {[TokenIdle EXCEPT !.lbTokens = t] : t \in {{1}, {}}}

NextToken ==
    \/ \E t \in {call.secret} \cup call.lbTokens : RefreshAuthTokenEntry(t)
    \/ \E ok \in BOOLEAN : NewAviRestClientWithToken(ok)
    \/ \E ok \in BOOLEAN : GetAuthTokenWithRetry(ok)
    \/ \E found \in BOOLEAN, refresh \in BOOLEAN : GetTokenFromRestObj(found, refresh)
    \/ \E ok \in BOOLEAN, parsed \in BOOLEAN : CreateAuthTokenWithRetry(ok, parsed)
    \/ \E ok \in BOOLEAN : GetAviSecretWithRetry(ok)
    \/ \E ok \in BOOLEAN : UpdateAviSecretWithRetry(ok)
    \/ \E ok \in BOOLEAN : DeleteAuthTokenWithRetry(ok)

SpecToken == InitToken /\ [][NextToken]_vars

TokenFailures ==
    {"listFailed", "findFailed", "createFailed", "getSecretFailed", "updateSecretFailed"}

\* C40: RefreshAuthToken deletes the old token on the LB controller only after
\* the new token has been written to the avi-secret; when listing the tokens,
\* finding the current one, creating the new one, reading the Secret or
\* updating the Secret fails, the Secret is as it was at the call and the old
\* token has not been deleted.
C40_OldTokenDeletedAfterSecretWritten ==
    /\ [][(call.fn = "RefreshAuthToken" /\ ~(call.lbTokens \subseteq call'.lbTokens))
          => /\ call.updated
             /\ call.secret = call.token /\ call.token # 0
             /\ call.lbTokens \ call'.lbTokens = {call.oldTokenID}]_vars
    /\ []((call.fn = "RefreshAuthToken" /\ call.result \in TokenFailures)
          => /\ call.secret = call.secretAtEntry
             /\ call.tokensAtEntry \subseteq call.lbTokens)

\* A second refresh wrote its token to the Secret and deleted the token the
\* first refresh had written; another one gave up after the last failed write.
C40_Witness ==
    /\ call.fn = "RefreshAuthToken"
    /\ call.runs = 2
    /\ call.result = "refreshed"
    /\ call.secret = 3
    /\ call.lbTokens = {3}
====
